---------------------------- MODULE Spec2Model ----------------------------
(***************************************************************************)
(* Model of the caching and authentication-resolution layer of the blog   *)
(* backend: the in-process TTL cache (utils/cache, MemoryCache), the       *)
(* verifyJWT middlewares that resolve a request's identity from session,   *)
(* signed cookie, Authorization header and the token cache, the role      *)
(* check requireRoles, the login, logout and validate routes, the view     *)
(* counter behind the detail cache of GET /api/blogs/:id, the listing      *)
(* cache and the pagination of GET /api/blogs, the moderation routes that  *)
(* change what both serve, and the cluster primary of server.ts.           *)
(*                                                                         *)
(* Each component has its own next-state relation and specification over   *)
(* the shared variables: CacheSpec, AuthSpec, LoginSpec, RolesSpec,        *)
(* BlogSpec, ListSpec, StaleSpec, PageSpec, ModSpec, ClusterSpec and       *)
(* ClusterFairSpec.                                                        *)
(*                                                                         *)
(* Node runs each handler's synchronous code to completion, so every       *)
(* MemoryCache method call and every run of a synchronous middleware is    *)
(* one atomic action; concurrency is the arbitrary order of those actions  *)
(* and of the timer callbacks.                                             *)
(***************************************************************************)
EXTENDS Integers, FiniteSets, Sequences, TLC

VARIABLES
    now,        \* Date.now(), in milliseconds
    ticks,      \* number of clock advances so far (bounds the run)
    cache,      \* MemoryCache.cache : Map<string, CacheEntry>
    timers,     \* pending setTimeout callbacks of MemoryCache.set
    last,       \* the most recent cache call and what it returned
    lastSet,    \* per key: the most recent set on it, and whether a delete/clear followed
    jwtSecret,  \* process.env.JWT_SECRET (UnsetSecret when the variable is unset)
    session,    \* per session id: req.session.admin (Null when unset)
    resp,       \* the most recent middleware run: the request and its outcome
    jar,        \* per client: the admin_token cookie its browser holds (Null when none)
    held,       \* the token copied out of the last successful login (Null when none)
    lastLogin,  \* per admin: the last_login column (Null when never set)
    db,         \* the blogs table: per id the committed row (status, views)
    lock,       \* per blog id: the open transaction holding the row lock (NoLock when free)
    req,        \* per GET /api/blogs/:id request: where its handler is, and its response
    proc,       \* the Node process: "up", or "crashed" by an unhandled rejection
    lreq,       \* per GET /api/blogs request: its query, where its handler is, and its response
    workers,    \* per worker id of the cluster: where the worker process is in its life
    inbox,      \* the workers with a "shutdown" message on its way to them
    primary     \* the cluster primary: its state, and what its SIGTERM handler set up

vars == <<now, ticks, cache, timers, last, lastSet, jwtSecret, session, resp,
          jar, held, lastLogin, db, lock, req, proc, lreq, workers, inbox, primary>>

cacheVars == <<cache, timers, last, lastSet>>
authVars == <<jwtSecret, session, resp>>
clientVars == <<jar, held, lastLogin>>
blogVars == <<db, lock, req, proc, lreq>>
clusterVars == <<workers, inbox, primary>>

-----------------------------------------------------------------------------
(* Bounds of the model *)

MaxTicks == 4
MaxTimers == 2

-----------------------------------------------------------------------------
(* Values *)

\* JavaScript null / undefined (a missing Map entry, an absent cookie).
Null == [null |-> TRUE]

\* ttlSeconds * 1000 in MemoryCache.set
MsPerSecond == 1000

Keys == {"x", "y"}
Values == {[n |-> 42], [n |-> 43]}
TtlInputs == {-1, 0, 1}
\* The set calls handlers make: every value and ttl on "x", one bystander entry on "y".
SetInputs == ({"x"} \X Values \X TtlInputs) \cup {<<"y", [n |-> 42], 1>>}
\* The clock is observed every half second.
CacheTickSteps == {500}

-----------------------------------------------------------------------------
(* Identities, tokens and requests *)

\* Token cache TTL in seconds
TOKEN_CACHE_TTL == 300

\* The signing keys a token may carry: the configured JWT_SECRET, the literal
\* the second middleware and GET /validate fall back to, and a key of someone
\* who does not know the server's secret.
EnvSecret == "env-secret"
FallbackSecret == "secret"
ForeignSecret == "foreign"

\* process.env.JWT_SECRET when the variable is missing from the environment
UnsetSecret == "undefined"

\* JWT_SECRET is either configured or missing from the environment.
SecretConfigs == {EnvSecret, UnsetSecret}

Sessions == {"s1", "s2"}

\* A well-formed JWT: the claims jwt.sign put in it (exp and iat in seconds),
\* the key it was signed with, and the last 10 characters of its text.
Jwt(id, username, iat, exp, key, tail) ==
    [id |-> id, username |-> username, iat |-> iat, exp |-> exp,
     key |-> key, tail |-> tail, jwt |-> TRUE]

TokA == Jwt("id-alice", "alice", 0, 1800, EnvSecret, "aaaaaaaaaa")
TokB == Jwt("id-bob", "bob", 0, 1800, EnvSecret, "bbbbbbbbbb")
\* issued 25 minutes before the run starts: it expires 300 s into it
TokOld == Jwt("id-alice", "alice", -1500, 300, EnvSecret, "cccccccccc")
\* signed with the fallback literal
TokFallback == Jwt("id-bob", "bob", 0, 1800, FallbackSecret, "dddddddddd")
\* not signed by the server, ending in the same 10 characters as TokA
TokForged == Jwt("id-bob", "bob", 0, 1800, ForeignSecret, "aaaaaaaaaa")
\* a string that is no JWT at all
TokGarbage == [jwt |-> FALSE, tail |-> "gggggggggg"]

Tokens == {TokA, TokB, TokOld, TokFallback, TokForged, TokGarbage}

\* The Authorization header: absent (Null), "Bearer <token>", "Bearer " with
\* nothing after the blank (token Null), or another scheme.
Bearer(token) == [scheme |-> "Bearer", token |-> token]
BasicAuth == [scheme |-> "Basic", token |-> Null]

\* The requests clients send: <<req.signedCookies.admin_token, req.headers.authorization>>
RequestInputs ==
    {<<Null, Null>>, <<Null, BasicAuth>>, <<Null, Bearer(Null)>>}
    \cup {<<tok, Null>> : tok \in {TokA, TokB, TokOld, TokForged, TokGarbage}}
    \cup {<<Null, Bearer(tok)>> : tok \in {TokA, TokOld, TokFallback}}
    \cup {<<TokA, Bearer(TokB)>>, <<TokA, Bearer(Null)>>, <<TokGarbage, Bearer(TokA)>>}

AuthTickSteps == {150000}

\* The blogs table at the start: an approved post that already has views, and
\* a post still waiting for approval.
BlogIds == {"r1", "r2"}
InitViews == 7
InitDb ==
    [id \in BlogIds |->
        IF id = "r1" THEN [status |-> "approved", views |-> InitViews]
        ELSE [status |-> "pending", views |-> 0]]

\* The posts whose status the admin changes during a run
ModeratedIds == {"r2"}

\* What the table holds for an id once DELETE removed its row: nothing
NoRow == [status |-> "deleted", views |-> 0]

\* The GET /api/blogs/:id requests of a run
MaxReqs == 3
Reqs == 1..MaxReqs
NoLock == 0

\* A request that has not arrived yet
IdleReq ==
    [pc |-> "idle", id |-> "none", path |-> "none", status |-> "none",
     views |-> -1, source |-> "none", read |-> Null, logged |-> FALSE,
     attempts |-> 0, committed |-> FALSE]

\* Cache lifetimes of routes/blog.ts, in seconds
POST_CACHE_TTL == 60
LIST_CACHE_TTL == 30

\* The submissionDate column, which no route changes, in milliseconds; and
\* the ISO text of those instants.
SubmissionDate(id) == IF id = "r1" THEN 1000 ELSE 2000
toISOString(date) == IF date = 1000 THEN "t1000" ELSE "t2000"

\* new Date(cursor).getTime(): NaN (here -1) when the text is no date
NaN == -1
parseDate(cursor) ==
    IF cursor = "t1000" THEN 1000 ELSE IF cursor = "t2000" THEN 2000 ELSE NaN

\* nextCursor: null
NullCursor == "null"

\* The GET /api/blogs requests of a run, and the queries they carry:
\* <<req.query.limit as a number (0 when absent or not a number),
\*   req.query.cursor ("" when absent or empty), req.query.sort ("" when absent)>>
MaxListReqs == 2
ListReqs == 1..MaxListReqs
ListInputs ==
    {<<0, "", "">>, <<0, "none", "">>, <<1, "", "">>, <<60, "", "views">>,
     <<0, "t2000", "date">>}

\* A listing request that has not arrived yet
IdleListReq ==
    [pc |-> "idle", limit |-> 0, cursor |-> "", sort |-> "", status |-> "none",
     rows |-> <<>>, nextCursor |-> NullCursor, source |-> "none",
     readAt |-> -1]

ListTickSteps == {20000}
MaxListTicks == 2

BlogTickSteps == {61000}
MaxBlogTicks == 1

\* The admins table: one row, whose password column is the hash of "pw-alice".
Admins == {"alice"}
AdminRow(username) ==
    [id |-> "id-" \o username, username |-> username, password |-> "pw-" \o username]

\* What POST /login receives in req.body: <<username, password>>, "" when the
\* field is missing or empty.
LoginInputs ==
    {<<"alice", "pw-alice">>, <<"alice", "wrong">>, <<"mallory", "pw-alice">>,
     <<"", "pw-alice">>, <<"alice", "">>}

\* The client that logs in and out; the other one only sends requests.
Browsers == {"s1"}

\* How the two queries of POST /login end.
LoginDbOutcomes == {"ok", "selectFails", "updateFails"}

\* expiresIn: '30m', in seconds
TokenLifetime == 1800

\* The literal POST /login signs with when JWT_SECRET is unset
LoginFallbackSecret == "secret_key"

\* The last 10 characters of the tokens jwt.sign produces for alice under the
\* configured secret, by the second they are issued in; the token issued at
\* second 0 is TokA.
LoginTickSteps == {300000}
MaxLoginTicks == 2
TailTable ==
    <<"aaaaaaaaaa", "alice00300", "alice00600", "alice00900", "alice01200",
      "alice01500", "alice01800", "alice02100">>

\* The cluster of server.ts in production: the workers forked at start, and
\* the worker ids of a run (those, and the workers forked later).
numCPUs == 2
MaxForks == 2
WorkerIds == 1..(numCPUs + MaxForks)

\* The primary before any signal
RunningPrimary == [state |-> "running", snapshot |-> {}, killAt |-> -1]

\* The delay of the force-kill timer, in milliseconds
ForceKillDelay == 5000

ClusterTickSteps == {5000}
MaxClusterTicks == 1

-----------------------------------------------------------------------------
(* Map<string, CacheEntry> *)

MapSet(m, key, entry) ==
    [k \in DOMAIN m \cup {key} |-> IF k = key THEN entry ELSE m[k]]

MapDelete(m, key) ==
    [k \in DOMAIN m \ {key} |-> m[k]]

EmptyMap == [k \in {} |-> Null]

-----------------------------------------------------------------------------
(* MemoryCache *)

\* Mutant: a set on an existing key keeps the entry that is there.
MemoryCache_set_keepFirst(store, tm, key, value, ttlSeconds, t) ==
    [store  |-> IF key \in DOMAIN store
                THEN store
                ELSE MapSet(store, key,
                            [value |-> value, expiry |-> t + ttlSeconds * MsPerSecond]),
     timers |-> IF ttlSeconds > 0
                THEN tm \cup {[key |-> key, fireAt |-> t + ttlSeconds * MsPerSecond]}
                ELSE tm]

\* Mutant: the cleanup timer is scheduled whatever the ttl.
MemoryCache_set_alwaysTimer(store, tm, key, value, ttlSeconds, t) ==
    [store  |-> MapSet(store, key,
                       [value |-> value, expiry |-> t + ttlSeconds * MsPerSecond]),
     timers |-> tm \cup {[key |-> key, fireAt |-> t + ttlSeconds * MsPerSecond]}]

\* set(key, value, ttlSeconds): the store and the pending timers after the call.
MemoryCache_set(store, tm, key, value, ttlSeconds, t) ==
    [store  |-> MapSet(store, key,
                       [value |-> value, expiry |-> t + ttlSeconds * MsPerSecond]),
     timers |-> IF ttlSeconds > 0
                THEN tm \cup {[key |-> key, fireAt |-> t + ttlSeconds * MsPerSecond]}
                ELSE tm]

\* Mutant: get never looks at the expiry.
MemoryCache_get_noExpiry(store, key, t) ==
    IF key \notin DOMAIN store
    THEN [ret |-> Null, store |-> store]
    ELSE [ret |-> store[key].value, store |-> store]

\* Mutant: get reports an expired entry absent but leaves it in the map.
MemoryCache_get_noCleanup(store, key, t) ==
    IF key \notin DOMAIN store \/ store[key].expiry < t
    THEN [ret |-> Null, store |-> store]
    ELSE [ret |-> store[key].value, store |-> store]

\* get(key): the returned value and the store after the call.
MemoryCache_get(store, key, t) ==
    IF key \notin DOMAIN store \/ store[key].expiry < t
    THEN [ret   |-> Null,
          store |-> IF key \in DOMAIN store THEN MapDelete(store, key) ELSE store]
    ELSE [ret |-> store[key].value, store |-> store]

\* delete(key)
MemoryCache_delete(store, key) == MapDelete(store, key)

\* Mutant: the timer callback deletes whatever is stored under the key.
MemoryCache_deleteIfExpired_always(store, key, t) ==
    IF key \in DOMAIN store THEN MapDelete(store, key) ELSE store

\* deleteIfExpired(key)
MemoryCache_deleteIfExpired(store, key, t) ==
    IF key \in DOMAIN store /\ store[key].expiry < t
    THEN MapDelete(store, key)
    ELSE store

\* clear()
MemoryCache_clear(store) == EmptyMap

\* size()
MemoryCache_size(store) == Cardinality(DOMAIN store)

-----------------------------------------------------------------------------
(* Initial state: the singleton cache right after construction *)

Init ==
    /\ now = 0
    /\ ticks = 0
    /\ cache = EmptyMap
    /\ timers = {}
    /\ last = [op |-> "none"]
    /\ lastSet = [k \in Keys |-> Null]
    /\ jwtSecret \in SecretConfigs
    /\ session = [s \in Sessions |-> Null]
    /\ resp = [mw |-> "none"]
    /\ jar = [c \in Sessions |-> Null]
    /\ held = Null
    /\ lastLogin = [a \in Admins |-> Null]
    /\ db = InitDb
    /\ lock = [id \in BlogIds |-> NoLock]
    /\ req = [r \in Reqs |-> IdleReq]
    /\ proc = "up"
    /\ lreq = [r \in ListReqs |-> IdleListReq]
    /\ workers = [w \in WorkerIds |-> IF w <= numCPUs THEN "online" ELSE "unborn"]
    /\ inbox = {}
    /\ primary = RunningPrimary

-----------------------------------------------------------------------------
(* The clock *)

Tick(d) ==
    /\ ticks < MaxTicks
    /\ now' = now + d
    /\ ticks' = ticks + 1
    /\ UNCHANGED <<cacheVars, authVars, clientVars, blogVars, clusterVars>>

-----------------------------------------------------------------------------
(* Cache calls made by request handlers *)

set(key, value, ttlSeconds) ==
    \E r \in {MemoryCache_set(cache, timers, key, value, ttlSeconds, now)} :
    /\ Cardinality(r.timers) <= MaxTimers
    /\ cache' = r.store
    /\ timers' = r.timers
    /\ last' = [op |-> "set", key |-> key]
    /\ lastSet' = [lastSet EXCEPT ![key] =
                      [value |-> value, ttl |-> ttlSeconds, at |-> now,
                       deleted |-> FALSE]]
    /\ UNCHANGED <<now, ticks, authVars, clientVars, blogVars, clusterVars>>

get(key) ==
    \E r \in {MemoryCache_get(cache, key, now)} :
    /\ cache' = r.store
    /\ last' = [op |-> "get", key |-> key, ret |-> r.ret]
    /\ UNCHANGED <<now, ticks, timers, lastSet, authVars, clientVars, blogVars, clusterVars>>

delete(key) ==
    /\ cache' = MemoryCache_delete(cache, key)
    /\ last' = [op |-> "delete", key |-> key]
    /\ lastSet' = [lastSet EXCEPT ![key] =
                      IF @ = Null THEN @ ELSE [@ EXCEPT !.deleted = TRUE]]
    /\ UNCHANGED <<now, ticks, timers, authVars, clientVars, blogVars, clusterVars>>

clear ==
    /\ cache' = MemoryCache_clear(cache)
    /\ last' = [op |-> "clear"]
    /\ lastSet' = [k \in Keys |->
                      IF lastSet[k] = Null THEN Null
                      ELSE [lastSet[k] EXCEPT !.deleted = TRUE]]
    /\ UNCHANGED <<now, ticks, timers, authVars, clientVars, blogVars, clusterVars>>

size ==
    /\ last' = [op |-> "size", ret |-> MemoryCache_size(cache)]
    /\ UNCHANGED <<now, ticks, cache, timers, lastSet, authVars, clientVars, blogVars, clusterVars>>

\* A setTimeout callback of set runs: never before its delay has passed,
\* possibly later.
deleteIfExpired(tmr) ==
    /\ tmr \in timers
    /\ now >= tmr.fireAt
    /\ cache' = MemoryCache_deleteIfExpired(cache, tmr.key, now)
    /\ timers' = timers \ {tmr}
    /\ last' = [op |-> "timer", key |-> tmr.key]
    /\ UNCHANGED <<now, ticks, lastSet, authVars, clientVars, blogVars, clusterVars>>

CacheNext ==
    \/ \E in \in SetInputs : set(in[1], in[2], in[3])
    \/ \E k \in Keys : get(k)
    \/ \E k \in Keys : delete(k)
    \/ clear
    \/ size
    \/ \E tmr \in timers : deleteIfExpired(tmr)
    \/ \E d \in CacheTickSteps : Tick(d)

\* The cache never reads the environment: its runs start with JWT_SECRET configured.
CacheInit == Init /\ jwtSecret = EnvSecret

CacheSpec == CacheInit /\ [][CacheNext]_vars

-----------------------------------------------------------------------------
(* jsonwebtoken and the token cache key *)

\* getTokenCacheKey(token): "jwt_token_" + token.slice(-10). The prefix is the
\* same for every token, so the key is given by the last 10 characters.
getTokenCacheKey(token) == token.tail

\* jwt.verify(token, secret) at clock reading t: throws (ok = FALSE) without a
\* secret, on a string that is no JWT, on a signature made with another key,
\* and once floor(t / 1000) >= exp; otherwise returns the decoded claims.
jwt_verify(token, secret, t) ==
    IF /\ secret # UnsetSecret
       /\ token.jwt
       /\ token.key = secret
       /\ (t \div MsPerSecond) < token.exp
    THEN [ok |-> TRUE,
          payload |-> [id |-> token.id, username |-> token.username,
                       iat |-> token.iat, exp |-> token.exp]]
    ELSE [ok |-> FALSE, payload |-> Null]

\* process.env.JWT_SECRET || "secret"
SecretOrFallback(secret) == IF secret = UnsetSecret THEN FallbackSecret ELSE secret

-----------------------------------------------------------------------------
(* middleware verifyJWT (session, cookie, header, token cache) *)

\* res.status(401).json({success: false, error: {code: "UNAUTHORIZED", message}})
Unauthorized(message, path, store, tm, token, looked, verified) ==
    [status |-> "401", admin |-> Null, sess |-> Null, store |-> store, timers |-> tm,
     path |-> path, token |-> token, looked |-> looked, verified |-> verified,
     body |-> [code |-> "UNAUTHORIZED", message |-> message]]

\* next() with req.admin and req.session.admin set to payload
Authenticated(payload, path, store, tm, token, looked, verified) ==
    [status |-> "next", admin |-> payload, sess |-> payload, store |-> store,
     timers |-> tm, path |-> path, token |-> token, looked |-> looked,
     verified |-> verified, body |-> Null]

\* Mutant: a token whose verification throws is let through with no identity.
ResolveToken_failOpen(token, store, tm, secret, t) ==
    LET hit == MemoryCache_get(store, getTokenCacheKey(token), t)
        v   == jwt_verify(token, secret, t)
        put == MemoryCache_set(hit.store, tm, getTokenCacheKey(token), v.payload,
                               TOKEN_CACHE_TTL, t)
    IN  IF hit.ret # Null
        THEN Authenticated(hit.ret, "cache", hit.store, tm, token, TRUE, FALSE)
        ELSE IF v.ok
        THEN Authenticated(v.payload, "verify", put.store, put.timers, token, TRUE, TRUE)
        ELSE [Unauthorized("Invalid authentication token", "invalid", hit.store, tm,
                           token, TRUE, TRUE) EXCEPT !.status = "next"]

\* Mutant: the signature is checked on every request; the cache is written
\* but never consulted.
ResolveToken_alwaysVerify(token, store, tm, secret, t) ==
    LET v   == jwt_verify(token, secret, t)
        put == MemoryCache_set(store, tm, getTokenCacheKey(token), v.payload,
                               TOKEN_CACHE_TTL, t)
    IN  IF v.ok
        THEN Authenticated(v.payload, "verify", put.store, put.timers, token, TRUE, TRUE)
        ELSE Unauthorized("Invalid authentication token", "invalid", store, tm,
                          token, TRUE, TRUE)

\* Mutant: a cache hit attaches the payload to the request only, not to the session.
ResolveToken_noBackfill(token, store, tm, secret, t) ==
    LET hit == MemoryCache_get(store, getTokenCacheKey(token), t)
        v   == jwt_verify(token, secret, t)
        put == MemoryCache_set(hit.store, tm, getTokenCacheKey(token), v.payload,
                               TOKEN_CACHE_TTL, t)
    IN  IF hit.ret # Null
        THEN [Authenticated(hit.ret, "cache", hit.store, tm, token, TRUE, FALSE)
                 EXCEPT !.sess = Null]
        ELSE IF v.ok
        THEN Authenticated(v.payload, "verify", put.store, put.timers, token, TRUE, TRUE)
        ELSE Unauthorized("Invalid authentication token", "invalid", hit.store, tm,
                          token, TRUE, TRUE)

\* The cache lookup, verification and back-fill verifyJWT applies to the token
\* it found (the same statements for the header token and the cookie token).
ResolveToken(token, store, tm, secret, t) ==
    LET hit == MemoryCache_get(store, getTokenCacheKey(token), t)
        v   == jwt_verify(token, secret, t)
        put == MemoryCache_set(hit.store, tm, getTokenCacheKey(token), v.payload,
                               TOKEN_CACHE_TTL, t)
    IN  IF hit.ret # Null
        THEN Authenticated(hit.ret, "cache", hit.store, tm, token, TRUE, FALSE)
        ELSE IF v.ok
        THEN Authenticated(v.payload, "verify", put.store, put.timers, token, TRUE, TRUE)
        ELSE Unauthorized("Invalid authentication token", "invalid", hit.store, tm,
                          token, TRUE, TRUE)

\* Mutant: the cookie token is resolved before the session is looked at.
verifyJWT_cookieFirst(sessAdmin, cookie, auth, store, tm, secret, t) ==
    IF cookie # Null
    THEN ResolveToken(cookie, store, tm, secret, t)
    ELSE IF sessAdmin # Null
    THEN Authenticated(sessAdmin, "session", store, tm, Null, FALSE, FALSE)
    ELSE IF auth = Null \/ auth.scheme # "Bearer"
    THEN Unauthorized("Authentication required", "nocred", store, tm, Null, FALSE, FALSE)
    ELSE IF auth.token = Null
    THEN Unauthorized("Invalid authentication token", "badheader", store, tm, Null,
                      FALSE, FALSE)
    ELSE ResolveToken(auth.token, store, tm, secret, t)

\* verifyJWT(req, res, next) with req.session.admin = sessAdmin,
\* req.signedCookies.admin_token = cookie, req.headers.authorization = auth.
verifyJWT(sessAdmin, cookie, auth, store, tm, secret, t) ==
    IF sessAdmin # Null
    THEN Authenticated(sessAdmin, "session", store, tm, Null, FALSE, FALSE)
    ELSE IF cookie = Null
    THEN IF auth = Null \/ auth.scheme # "Bearer"
         THEN Unauthorized("Authentication required", "nocred", store, tm, Null,
                           FALSE, FALSE)
         ELSE IF auth.token = Null
         THEN Unauthorized("Invalid authentication token", "badheader", store, tm,
                           Null, FALSE, FALSE)
         ELSE ResolveToken(auth.token, store, tm, secret, t)
    ELSE ResolveToken(cookie, store, tm, secret, t)

-----------------------------------------------------------------------------
(* the second verifyJWT middleware and GET /validate of routes/admin-auth.ts *)

\* authHeader?.startsWith("Bearer ") ? authHeader.substring(7)
\*                                   : req.signedCookies?.admin_token
HeaderOrCookieToken(cookie, auth) ==
    IF auth # Null /\ auth.scheme = "Bearer" THEN auth.token ELSE cookie

\* The second middleware named verifyJWT (exported with requireRoles): no
\* session, no cache.
verifyJWT_v2(cookie, auth, secret, t) ==
    LET token == HeaderOrCookieToken(cookie, auth)
        v     == jwt_verify(token, SecretOrFallback(secret), t)
    IN  IF token = Null
        THEN [status |-> "401", admin |-> Null, path |-> "nocred", token |-> Null,
              verified |-> FALSE, body |-> [error |-> "Authentication required"]]
        ELSE IF v.ok
        THEN [status |-> "next", admin |-> v.payload, path |-> "verify",
              token |-> token, verified |-> TRUE, body |-> Null]
        ELSE [status |-> "401", admin |-> Null, path |-> "invalid", token |-> token,
              verified |-> TRUE,
              body |-> [error |-> "Invalid or expired authentication token"]]

\* GET /validate of routes/admin-auth.ts
validate(cookie, auth, secret, t) ==
    LET token == HeaderOrCookieToken(cookie, auth)
        v     == jwt_verify(token, SecretOrFallback(secret), t)
    IN  IF token = Null
        THEN [status |-> "401", admin |-> Null, path |-> "nocred", token |-> Null,
              verified |-> FALSE,
              body |-> [message |-> "No authentication token provided"]]
        ELSE IF v.ok
        THEN [status |-> "200", admin |-> v.payload, path |-> "verify",
              token |-> token, verified |-> TRUE,
              body |-> [username |-> v.payload.username, authenticated |-> TRUE]]
        ELSE [status |-> "401", admin |-> Null, path |-> "invalid", token |-> token,
              verified |-> TRUE, body |-> [message |-> "Authentication failed"]]

-----------------------------------------------------------------------------
(* Requests *)

\* A request on session s reaches a route guarded by verifyJWT.
RunVerifyJWT(s, cookie, auth) ==
    \E r \in {verifyJWT(session[s], cookie, auth, cache, timers, jwtSecret, now)} :
    /\ Cardinality(r.timers) <= MaxTimers
    /\ cache' = r.store
    /\ timers' = r.timers
    /\ session' = [session EXCEPT ![s] = IF r.status = "next" THEN r.sess ELSE @]
    /\ resp' = [mw |-> "verifyJWT", sess |-> s, cookie |-> cookie, auth |-> auth,
                status |-> r.status, admin |-> r.admin, path |-> r.path,
                token |-> r.token, looked |-> r.looked, verified |-> r.verified,
                body |-> r.body]
    /\ UNCHANGED <<now, ticks, last, lastSet, jwtSecret, clientVars, blogVars, clusterVars>>

\* A request reaches a route guarded by the second verifyJWT.
RunVerifyJWT_v2(cookie, auth) ==
    \E r \in {verifyJWT_v2(cookie, auth, jwtSecret, now)} :
    /\ resp' = [mw |-> "verifyJWT_v2", sess |-> Null, cookie |-> cookie, auth |-> auth,
                status |-> r.status, admin |-> r.admin, path |-> r.path,
                token |-> r.token, looked |-> FALSE, verified |-> r.verified,
                body |-> r.body]
    /\ UNCHANGED <<now, ticks, cacheVars, jwtSecret, session, clientVars, blogVars, clusterVars>>

\* A request reaches GET /validate of routes/admin-auth.ts.
RunValidate(cookie, auth) ==
    \E r \in {validate(cookie, auth, jwtSecret, now)} :
    /\ resp' = [mw |-> "validate", sess |-> Null, cookie |-> cookie, auth |-> auth,
                status |-> r.status, admin |-> r.admin, path |-> r.path,
                token |-> r.token, looked |-> FALSE, verified |-> r.verified,
                body |-> r.body]
    /\ UNCHANGED <<now, ticks, cacheVars, jwtSecret, session, clientVars, blogVars, clusterVars>>

AuthNext ==
    \/ \E s \in Sessions, rq \in RequestInputs : RunVerifyJWT(s, rq[1], rq[2])
    \/ \E rq \in RequestInputs : RunVerifyJWT_v2(rq[1], rq[2])
    \/ \E rq \in RequestInputs : RunValidate(rq[1], rq[2])
    \/ \E tmr \in timers : deleteIfExpired(tmr)
    \/ \E d \in AuthTickSteps : Tick(d)

AuthSpec == Init /\ [][AuthNext]_vars

-----------------------------------------------------------------------------
(* routes/admin-auth.js: POST /login and POST /logout, mounted at /api/auth *)

\* bcrypt.compare(password, hash)
bcrypt_compare(password, hash) == password = hash

\* jwt.sign(payload, key, { expiresIn: '30m' }) at instant t: HMAC signing is
\* deterministic, so the same payload signed in the same second under the
\* same key is the same token.
jwt_sign(payload, key, t) ==
    Jwt(payload.id, payload.username, t \div MsPerSecond,
        (t \div MsPerSecond) + TokenLifetime, key,
        IF payload.username = "alice" /\ key = EnvSecret
        THEN TailTable[((t \div MsPerSecond) \div 300) + 1]
        ELSE "zzzzzzzzzz")

\* process.env.JWT_SECRET || 'secret_key'
LoginSecretOrFallback(secret) ==
    IF secret = UnsetSecret THEN LoginFallbackSecret ELSE secret

\* Mutant: last_login is written as soon as the admin is found, before the
\* password is compared.
login_touchFirst(username, password, secret, t, dbOutcome) ==
    IF username = "" \/ password = ""
    THEN [status |-> "400", token |-> Null, admin |-> Null, touched |-> FALSE,
          body |-> [success |-> FALSE, message |-> "Username and password are required"]]
    ELSE IF dbOutcome = "selectFails"
    THEN [status |-> "500", token |-> Null, admin |-> Null, touched |-> FALSE,
          body |-> [success |-> FALSE, message |-> "Server error during login"]]
    ELSE IF username \notin Admins
    THEN [status |-> "401", token |-> Null, admin |-> Null, touched |-> FALSE,
          body |-> [success |-> FALSE, message |-> "Invalid credentials"]]
    ELSE IF dbOutcome = "updateFails"
    THEN [status |-> "500", token |-> Null, admin |-> Null, touched |-> FALSE,
          body |-> [success |-> FALSE, message |-> "Server error during login"]]
    ELSE IF ~bcrypt_compare(password, AdminRow(username).password)
    THEN [status |-> "401", token |-> Null, admin |-> Null, touched |-> TRUE,
          body |-> [success |-> FALSE, message |-> "Invalid credentials"]]
    ELSE IF secret = UnsetSecret
    THEN [status |-> "500", token |-> Null, admin |-> Null, touched |-> TRUE,
          body |-> [success |-> FALSE, message |-> "Server error during login"]]
    ELSE LET payload == [id |-> AdminRow(username).id, username |-> username]
         IN  [status |-> "200",
              token |-> jwt_sign(payload, secret, t),
              admin |-> payload, touched |-> TRUE,
              body |-> [success |-> TRUE, message |-> "Login successful"]]

\* The outcome of POST /login: the status, the token put in the signed cookie,
\* the payload stored in the session, and whether last_login was written.
login(username, password, secret, t, dbOutcome) ==
    IF username = "" \/ password = ""
    THEN [status |-> "400", token |-> Null, admin |-> Null, touched |-> FALSE,
          body |-> [success |-> FALSE, message |-> "Username and password are required"]]
    ELSE IF dbOutcome = "selectFails"
    THEN [status |-> "500", token |-> Null, admin |-> Null, touched |-> FALSE,
          body |-> [success |-> FALSE, message |-> "Server error during login"]]
    ELSE IF username \notin Admins
    THEN [status |-> "401", token |-> Null, admin |-> Null, touched |-> FALSE,
          body |-> [success |-> FALSE, message |-> "Invalid credentials"]]
    ELSE IF ~bcrypt_compare(password, AdminRow(username).password)
    THEN [status |-> "401", token |-> Null, admin |-> Null, touched |-> FALSE,
          body |-> [success |-> FALSE, message |-> "Invalid credentials"]]
    ELSE IF dbOutcome = "updateFails"
    THEN [status |-> "500", token |-> Null, admin |-> Null, touched |-> FALSE,
          body |-> [success |-> FALSE, message |-> "Server error during login"]]
    ELSE IF secret = UnsetSecret
    \* res.cookie(..., { signed: true }) throws when cookieParser got no secret
    THEN [status |-> "500", token |-> Null, admin |-> Null, touched |-> TRUE,
          body |-> [success |-> FALSE, message |-> "Server error during login"]]
    ELSE LET payload == [id |-> AdminRow(username).id, username |-> username]
         IN  [status |-> "200",
              token |-> jwt_sign(payload, LoginSecretOrFallback(secret), t),
              admin |-> payload, touched |-> TRUE,
              body |-> [success |-> TRUE, message |-> "Login successful"]]

\* Client c posts its credentials to /login.
Login(c, username, password, dbOutcome) ==
    \E r \in {login(username, password, jwtSecret, now, dbOutcome)} :
    /\ jar' = [jar EXCEPT ![c] = IF r.status = "200" THEN r.token ELSE @]
    /\ held' = IF r.status = "200" THEN r.token ELSE held
    /\ session' = [session EXCEPT ![c] = IF r.status = "200" THEN r.admin ELSE @]
    /\ lastLogin' = IF r.touched
                    THEN [lastLogin EXCEPT ![username] = [at |-> now]]
                    ELSE lastLogin
    /\ resp' = [mw |-> "login", sess |-> c, status |-> r.status, body |-> r.body,
                username |-> username, touched |-> r.touched]
    /\ UNCHANGED <<now, ticks, cacheVars, jwtSecret, blogVars, clusterVars>>

\* Mutant: logout leaves the cookie in the browser.
logout_keepCookie(sessAdmin, cookie) ==
    [sess |-> Null, cookie |-> cookie, status |-> "200",
     body |-> [success |-> TRUE, message |-> "Logged out successfully"]]

\* The outcome of POST /logout: req.session.destroy() and
\* res.clearCookie('admin_token').
logout(sessAdmin, cookie) ==
    [sess |-> Null, cookie |-> Null, status |-> "200",
     body |-> [success |-> TRUE, message |-> "Logged out successfully"]]

\* Client c posts to /logout.
Logout(c) ==
    \E r \in {logout(session[c], jar[c])} :
    /\ session' = [session EXCEPT ![c] = r.sess]
    /\ jar' = [jar EXCEPT ![c] = r.cookie]
    /\ resp' = [mw |-> "logout", sess |-> c, status |-> r.status, body |-> r.body]
    /\ UNCHANGED <<now, ticks, cacheVars, jwtSecret, held, lastLogin, blogVars, clusterVars>>

\* req.admin when a request reaches a route of the /api/auth router: server.ts
\* puts helmet, cors, express.json, cookieParser and session in front of the
\* router, and none of them, nor the router, assigns req.admin.
reqAdmin_fromSession(sessAdmin) == sessAdmin

reqAdmin(sessAdmin) == Null

\* GET /validate of routes/admin-auth.js, with admin = req.admin
validate_js(admin) ==
    IF admin # Null
    THEN [status |-> "200",
          body |-> [success |-> TRUE,
                    data |-> [username |-> admin.username, authenticated |-> TRUE]]]
    ELSE [status |-> "401",
          body |-> [success |-> FALSE, message |-> "Not authenticated"]]

\* Client c asks GET /api/auth/validate.
GetValidate(c) ==
    \E r \in {validate_js(reqAdmin(session[c]))} :
    /\ resp' = [mw |-> "validate_js", sess |-> c, status |-> r.status, body |-> r.body]
    /\ UNCHANGED <<now, ticks, cacheVars, jwtSecret, session, clientVars, blogVars, clusterVars>>

\* Client c sends a request to a route guarded by verifyJWT: its browser adds
\* the cookie it holds, and the sender may add the token kept from the last
\* login as a bearer header.
ClientRequest(c, withHeader) ==
    RunVerifyJWT(c, jar[c], IF withHeader /\ held # Null THEN Bearer(held) ELSE Null)

LoginNext ==
    \/ \E c \in Browsers, in \in LoginInputs, o \in LoginDbOutcomes :
          Login(c, in[1], in[2], o)
    \/ \E c \in Browsers : Logout(c)
    \/ \E c \in Sessions, withHeader \in BOOLEAN : ClientRequest(c, withHeader)
    \/ \E c \in Browsers : GetValidate(c)
    \/ \E tmr \in timers : deleteIfExpired(tmr)
    \/ \E d \in LoginTickSteps : ticks < MaxLoginTicks /\ Tick(d)

LoginSpec == Init /\ [][LoginNext]_vars

-----------------------------------------------------------------------------
(* middleware requireRoles(allowedRoles), built on the second verifyJWT     *)

\* Tokens the server's key signed for principals whose payload carries a role
TokEditor == Jwt("id-eve", "eve", 0, 1800, EnvSecret, "eeeeeeeeee")
TokRoot == Jwt("id-root", "root", 0, 1800, EnvSecret, "rrrrrrrrrr")

\* admin.role of a decoded payload: "" when the payload has no role claim (or
\* an empty one, which JavaScript's || treats alike). The tokens POST /login
\* issues carry id and username only.
RoleClaim(admin) ==
    IF admin.id = "id-eve" THEN "editor"
    ELSE IF admin.id = "id-root" THEN "admin"
    ELSE ""

\* The allowedRoles a route is built with
AllowedRoleSets == {{"admin"}, {"editor"}, {"admin", "editor"}, {}}

\* The requests sent to a route behind requireRoles
RoleRequestInputs ==
    {<<Null, Null>>, <<Null, BasicAuth>>, <<TokGarbage, Null>>, <<TokForged, Null>>}
    \cup {<<tok, Null>> : tok \in {TokA, TokOld, TokEditor}}
    \cup {<<Null, Bearer(tok)>> : tok \in {TokRoot, TokFallback}}
    \cup {<<TokA, Bearer(TokEditor)>>}

\* Mutant: a payload without a role has no role.
effectiveRole_deny(admin) == RoleClaim(admin)

\* admin.role || "admin"
effectiveRole(admin) == IF RoleClaim(admin) = "" THEN "admin" ELSE RoleClaim(admin)

\* requireRoles(allowedRoles)(req, res, next): verifyJWT with the role check as
\* its continuation. checked tells whether the continuation ran, invoked
\* whether next() handed the request to the protected handler.
requireRoles(allowedRoles, cookie, auth, secret, t) ==
    LET v == verifyJWT_v2(cookie, auth, secret, t)
    IN  IF v.status # "next"
        THEN [status |-> v.status, admin |-> Null, role |-> "", checked |-> FALSE,
              invoked |-> FALSE, body |-> v.body]
        ELSE IF effectiveRole(v.admin) \in allowedRoles
        THEN [status |-> "next", admin |-> v.admin, role |-> effectiveRole(v.admin),
              checked |-> TRUE, invoked |-> TRUE, body |-> Null]
        ELSE [status |-> "403", admin |-> v.admin, role |-> effectiveRole(v.admin),
              checked |-> TRUE, invoked |-> FALSE,
              body |-> [error |-> "Insufficient permissions to access this resource"]]

\* A request reaches a route guarded by requireRoles(allowedRoles).
RunRequireRoles(allowedRoles, cookie, auth) ==
    \E r \in {requireRoles(allowedRoles, cookie, auth, jwtSecret, now)} :
    /\ resp' = [mw |-> "requireRoles", allowed |-> allowedRoles, cookie |-> cookie,
                auth |-> auth, status |-> r.status, admin |-> r.admin,
                role |-> r.role, checked |-> r.checked, invoked |-> r.invoked,
                body |-> r.body]
    /\ UNCHANGED <<now, ticks, cacheVars, jwtSecret, session, clientVars, blogVars, clusterVars>>

RolesNext ==
    \/ \E allowedRoles \in AllowedRoleSets, rq \in RoleRequestInputs :
          RunRequireRoles(allowedRoles, rq[1], rq[2])
    \/ \E d \in AuthTickSteps : Tick(d)

RolesSpec == Init /\ [][RolesNext]_vars

-----------------------------------------------------------------------------
(* routes/blog.ts: GET /api/blogs/:id, the view counter behind the detail  *)
(* cache. A handler runs from one await to the next as one step. A         *)
(* transaction's UPDATE takes the row lock until COMMIT or ROLLBACK, and   *)
(* nothing else runs in the handler in between, so the statements of one   *)
(* transaction up to the code that follows them are one step taken when    *)
(* the lock is free; the COMMIT of the background transaction, which       *)
(* follows its cache.set, is a step of its own.                            *)

getBlogPostCacheKey(id) == "blog_post_" \o id

\* Mutant: the UPDATE leaves the counter as it is.
sql_increment_lost(row) == row

\* update(blogs).set({ views: sql`views + 1` }).where(eq(blogs.id, id)) applied
\* to what the table holds for the id: no row matches once it is deleted.
sql_increment(row) == IF row = NoRow THEN row ELSE [row EXCEPT !.views = @ + 1]

\* Mutant: the SELECT has no condition on the status.
selectApproved_anyStatus(id, row) ==
    IF row # NoRow
    THEN [id |-> id, status |-> row.status, views |-> row.views]
    ELSE Null

\* select().from(blogs).where(id = id and status = 'approved').limit(1), on a
\* table in which the row of id reads as row: the row with its id, or Null.
selectApproved(id, row) ==
    IF row.status = "approved"
    THEN [id |-> id, status |-> row.status, views |-> row.views]
    ELSE Null

\* Mutant: the response to a cache hit shows the cached counter as it is.
hitResponse_noIncrement(cachedBlog) ==
    [status |-> "200", views |-> cachedBlog.views, source |-> "cache"]

\* res.json({ data: { ...cachedBlog, views: cachedBlog.views + 1 }, source: "cache" })
hitResponse(cachedBlog) ==
    [status |-> "200", views |-> cachedBlog.views + 1, source |-> "cache"]

\* Mutant: the rejection of the background transaction is thrown again.
onBackgroundError_rethrow ==
    [logged |-> TRUE, rethrown |-> TRUE, retry |-> FALSE]

\* .catch((err) => { console.error("Background view update failed:", err) })
onBackgroundError ==
    [logged |-> TRUE, rethrown |-> FALSE, retry |-> FALSE]

\* The request r for post id arrives: cache.get, and on a hit the response
\* and the start of the background transaction. Requests are numbered in the
\* order of their arrival.
StartDetail(r, id) ==
    /\ proc = "up"
    /\ req[r].pc = "idle"
    /\ \A q \in Reqs : q < r => req[q].pc # "idle"
    /\ \E g \in {MemoryCache_get(cache, getBlogPostCacheKey(id), now)} :
        /\ cache' = g.store
        /\ req' = [req EXCEPT ![r] =
              IF g.ret # Null
              THEN LET out == hitResponse(g.ret)
                   IN  [@ EXCEPT !.pc = "bgTx", !.id = id, !.path = "hit",
                                 !.status = out.status, !.views = out.views,
                                 !.source = out.source, !.attempts = 1]
              ELSE [@ EXCEPT !.pc = "missTx", !.id = id, !.path = "miss"]]
    /\ UNCHANGED <<now, ticks, timers, last, lastSet, authVars, clientVars, clusterVars,
                   db, lock, proc, lreq>>

\* Background transaction of a hit: UPDATE views = views + 1, the SELECT of
\* the approved row, and cache.set when there is one.
BgUpdate(r) ==
    /\ proc = "up"
    /\ req[r].pc = "bgTx"
    /\ lock[req[r].id] = NoLock
    /\ LET id == req[r].id
           updated == selectApproved(id, sql_increment(db[id]))
       IN  \E w \in {IF updated # Null
                      THEN MemoryCache_set(cache, timers, getBlogPostCacheKey(id),
                                           updated, POST_CACHE_TTL, now)
                      ELSE [store |-> cache, timers |-> timers]} :
           /\ Cardinality(w.timers) <= MaxTimers
           /\ cache' = w.store
           /\ timers' = w.timers
           /\ lock' = [lock EXCEPT ![id] = r]
           /\ req' = [req EXCEPT ![r].pc = "bgCommit", ![r].read = updated]
    /\ UNCHANGED <<now, ticks, last, lastSet, authVars, clientVars, clusterVars, db, proc, lreq>>

\* COMMIT of the background transaction.
BgCommit(r) ==
    /\ proc = "up"
    /\ req[r].pc = "bgCommit"
    /\ db' = [db EXCEPT ![req[r].id] = sql_increment(@)]
    /\ lock' = [lock EXCEPT ![req[r].id] = NoLock]
    /\ req' = [req EXCEPT ![r].pc = "done", ![r].committed = TRUE]
    /\ UNCHANGED <<now, ticks, cacheVars, authVars, clientVars, clusterVars, proc, lreq>>

\* A statement of the background transaction, or its COMMIT, fails: the
\* transaction is rolled back and the promise rejects into the catch.
BgFail(r) ==
    /\ proc = "up"
    /\ req[r].pc \in {"bgTx", "bgCommit"}
    /\ \E h \in {onBackgroundError} :
        /\ lock' = [lock EXCEPT ![req[r].id] = IF @ = r THEN NoLock ELSE @]
        /\ req' = [req EXCEPT ![r].pc = IF h.retry THEN "bgTx" ELSE "done",
                              ![r].logged = h.logged,
                              ![r].attempts = IF h.retry THEN @ + 1 ELSE @]
        /\ proc' = IF h.rethrown THEN "crashed" ELSE proc
    /\ UNCHANGED <<now, ticks, cacheVars, authVars, clientVars, clusterVars, db, lreq>>

\* Miss: the awaited transaction, which holds the UPDATE alone.
MissUpdate(r) ==
    /\ proc = "up"
    /\ req[r].pc = "missTx"
    /\ lock[req[r].id] = NoLock
    /\ db' = [db EXCEPT ![req[r].id] = sql_increment(@)]
    /\ req' = [req EXCEPT ![r].pc = "missSelect", ![r].committed = TRUE]
    /\ UNCHANGED <<now, ticks, cacheVars, authVars, clientVars, clusterVars, lock, proc, lreq>>

\* Miss: the SELECT that follows the transaction reads the committed row.
MissSelect(r) ==
    /\ proc = "up"
    /\ req[r].pc = "missSelect"
    /\ req' = [req EXCEPT ![r].pc = "missRespond",
                          ![r].read = selectApproved(req[r].id, db[req[r].id])]
    /\ UNCHANGED <<now, ticks, cacheVars, authVars, clientVars, clusterVars, db, lock, proc, lreq>>

\* Miss: the handler resumes with the row it read: 404 without one, else
\* cache.set and the response.
MissRespond(r) ==
    /\ proc = "up"
    /\ req[r].pc = "missRespond"
    /\ LET id == req[r].id
           blog == req[r].read
       IN  \E w \in {IF blog # Null
                      THEN MemoryCache_set(cache, timers, getBlogPostCacheKey(id),
                                           blog, POST_CACHE_TTL, now)
                      ELSE [store |-> cache, timers |-> timers]} :
           /\ Cardinality(w.timers) <= MaxTimers
           /\ cache' = w.store
           /\ timers' = w.timers
           /\ req' = [req EXCEPT ![r] =
                 IF blog # Null
                 THEN [@ EXCEPT !.pc = "done", !.status = "200",
                               !.views = blog.views, !.source = "database"]
                 ELSE [@ EXCEPT !.pc = "done", !.status = "404"]]
    /\ UNCHANGED <<now, ticks, last, lastSet, authVars, clientVars, clusterVars, db, lock, proc, lreq>>

\* Miss: the transaction or the SELECT fails, and the catch answers 500.
MissFail(r) ==
    /\ proc = "up"
    /\ req[r].pc \in {"missTx", "missSelect"}
    /\ req' = [req EXCEPT ![r].pc = "done", ![r].status = "500"]
    /\ UNCHANGED <<now, ticks, cacheVars, authVars, clientVars, clusterVars, db, lock, proc, lreq>>

BlogNext ==
    \/ \E r \in Reqs, id \in BlogIds : StartDetail(r, id)
    \/ \E r \in Reqs : BgUpdate(r)
    \/ \E r \in Reqs : BgCommit(r)
    \/ \E r \in Reqs : BgFail(r)
    \/ \E r \in Reqs : MissUpdate(r)
    \/ \E r \in Reqs : MissSelect(r)
    \/ \E r \in Reqs : MissRespond(r)
    \/ \E r \in Reqs : MissFail(r)
    \/ \E tmr \in timers : deleteIfExpired(tmr)
    \/ \E d \in BlogTickSteps : ticks < MaxBlogTicks /\ Tick(d)

BlogInit == Init /\ jwtSecret = EnvSecret

BlogSpec == BlogInit /\ [][BlogNext]_vars

-----------------------------------------------------------------------------
(* routes/blog.ts: GET /api/blogs, the listing cache; and the route of     *)
(* routes/admin.ts that changes what a listing shows                       *)

\* The text of a page size in a template literal
NumberText(n) ==
    IF n = 1 THEN "1" ELSE IF n = 10 THEN "10" ELSE IF n = 50 THEN "50" ELSE "n"

\* `blog_list_${limit}_${cursor || "none"}_${sort || "default"}`
getBlogListCacheKey(limit, cursor, sort) ==
    "blog_list_" \o NumberText(limit) \o "_"
       \o (IF cursor = "" THEN "none" ELSE cursor) \o "_"
       \o (IF sort = "" THEN "default" ELSE sort)

\* Math.min(Number(req.query.limit) || 10, 50)
parseLimit(limit) ==
    LET n == IF limit = 0 THEN 10 ELSE limit IN IF n < 50 THEN n ELSE 50

\* req.query.sort === "views" ? "views" : "submissionDate"
parseSort(sort) == IF sort = "views" THEN "views" ELSE "submissionDate"

\* The ids the WHERE clause keeps: approved posts, submitted before the
\* cursor's date when the request carries a cursor.
Selected(table, cursor) ==
    {id \in BlogIds :
        /\ table[id].status = "approved"
        /\ cursor # "" => SubmissionDate(id) < parseDate(cursor)}

\* The column of ORDER BY ... DESC
OrderColumn(table, id, sortField) ==
    IF sortField = "views" THEN table[id].views ELSE SubmissionDate(id)

\* The ids in descending order of the column (the posts of the model never
\* tie on it).
RECURSIVE OrderDesc(_, _, _)
OrderDesc(table, ids, sortField) ==
    IF ids = {} THEN <<>>
    ELSE LET top == CHOOSE i \in ids :
                       \A j \in ids : OrderColumn(table, i, sortField)
                                          >= OrderColumn(table, j, sortField)
         IN  <<top>> \o OrderDesc(table, ids \ {top}, sortField)

\* select().from(blogs).where(conditions).orderBy(...).limit(limit)
queryListing(table, limit, cursor, sortField) ==
    LET ordered == OrderDesc(table, Selected(table, cursor), sortField)
        n == IF limit < Len(ordered) THEN limit ELSE Len(ordered)
    IN  [k \in 1..n |->
            [id |-> ordered[k], status |-> table[ordered[k]].status,
             views |-> table[ordered[k]].views,
             submissionDate |-> SubmissionDate(ordered[k])]]

\* rows.length ? rows[rows.length - 1].submissionDate.toISOString() : null
nextCursorOf(rows) ==
    IF Len(rows) > 0 THEN toISOString(rows[Len(rows)].submissionDate) ELSE NullCursor

\* The listing request r arrives with its query: cache.get under the key of
\* the parsed query, and the response on a hit. Requests are numbered in the
\* order of their arrival.
StartListing(r, limit, cursor, sort) ==
    /\ proc = "up"
    /\ lreq[r].pc = "idle"
    /\ \A q \in ListReqs : q < r => lreq[q].pc # "idle"
    /\ \E g \in {MemoryCache_get(cache,
                      getBlogListCacheKey(parseLimit(limit), cursor, parseSort(sort)),
                      now)} :
        /\ cache' = g.store
        /\ lreq' = [lreq EXCEPT ![r] =
              IF g.ret # Null
              THEN [@ EXCEPT !.pc = "done", !.limit = limit, !.cursor = cursor,
                            !.sort = sort, !.status = "200", !.rows = g.ret.rows,
                            !.nextCursor = g.ret.nextCursor, !.source = "cache"]
              ELSE [@ EXCEPT !.pc = "query", !.limit = limit, !.cursor = cursor,
                            !.sort = sort]]
    /\ UNCHANGED <<now, ticks, timers, last, lastSet, authVars, clientVars, clusterVars,
                   db, lock, req, proc>>

\* The store runs the query of request r.
QueryListing(r) ==
    /\ proc = "up"
    /\ lreq[r].pc = "query"
    /\ lreq[r].cursor # "" => parseDate(lreq[r].cursor) # NaN
    /\ LET rows == queryListing(db, parseLimit(lreq[r].limit), lreq[r].cursor,
                                parseSort(lreq[r].sort))
       IN  lreq' = [lreq EXCEPT ![r].pc = "respond", ![r].rows = rows,
                               ![r].nextCursor = nextCursorOf(rows),
                               ![r].readAt = now]
    /\ UNCHANGED <<now, ticks, cacheVars, authVars, clientVars, clusterVars, db, lock, req, proc>>

\* The handler of request r resumes with the rows: cache.set and the response.
RespondListing(r) ==
    /\ proc = "up"
    /\ lreq[r].pc = "respond"
    /\ \E w \in {MemoryCache_set(cache, timers,
                      getBlogListCacheKey(parseLimit(lreq[r].limit), lreq[r].cursor,
                                          parseSort(lreq[r].sort)),
                      [rows |-> lreq[r].rows, nextCursor |-> lreq[r].nextCursor,
                       readAt |-> lreq[r].readAt],
                      LIST_CACHE_TTL, now)} :
        /\ Cardinality(w.timers) <= MaxTimers
        /\ cache' = w.store
        /\ timers' = w.timers
    /\ lreq' = [lreq EXCEPT ![r].pc = "done", ![r].status = "200",
                            ![r].source = "database"]
    /\ UNCHANGED <<now, ticks, last, lastSet, authVars, clientVars, clusterVars, db, lock, req, proc>>

\* The query of request r fails, because the store is unavailable or because
\* the cursor is no date, and the catch answers 500.
FailListing(r) ==
    /\ proc = "up"
    /\ lreq[r].pc = "query"
    /\ lreq' = [lreq EXCEPT ![r].pc = "done", ![r].status = "500"]
    /\ UNCHANGED <<now, ticks, cacheVars, authVars, clientVars, clusterVars, db, lock, req, proc>>

\* PUT /api/admin/blogs/:id/status by an authenticated admin: the UPDATE of
\* the row's status.
SetStatus(id, status) ==
    /\ proc = "up"
    /\ status \in {"approved", "rejected"}
    /\ db[id] # NoRow
    /\ db[id].status # status
    /\ lock[id] = NoLock
    /\ db' = [db EXCEPT ![id].status = status]
    /\ UNCHANGED <<now, ticks, cacheVars, authVars, clientVars, clusterVars, lock, req, proc, lreq>>

ListNext ==
    \/ \E r \in ListReqs, in \in ListInputs : StartListing(r, in[1], in[2], in[3])
    \/ \E r \in ListReqs : QueryListing(r)
    \/ \E r \in ListReqs : RespondListing(r)
    \/ \E r \in ListReqs : FailListing(r)
    \/ \E id \in ModeratedIds, status \in {"approved", "rejected"} : SetStatus(id, status)
    \/ \E tmr \in timers : deleteIfExpired(tmr)
    \/ \E d \in ListTickSteps : ticks < MaxListTicks /\ Tick(d)

ListSpec == BlogInit /\ [][ListNext]_vars

\* The listing under moderation alone: the first page by date and the first
\* page by views, while an admin approves and rejects the pending post.
StaleInputs == {<<0, "", "">>, <<60, "", "views">>}

\* The clock advances while a query is in flight or an entry is fresh
\* (20 s), or past the expiry of an entry (31 s).
StaleTickSteps == {20000, 31000}
MaxStaleTicks == 1

StaleNext ==
    \/ \E r \in ListReqs, in \in StaleInputs : StartListing(r, in[1], in[2], in[3])
    \/ \E r \in ListReqs : QueryListing(r)
    \/ \E r \in ListReqs : RespondListing(r)
    \/ \E r \in ListReqs : FailListing(r)
    \/ \E id \in ModeratedIds, status \in {"approved", "rejected"} : SetStatus(id, status)
    \/ \E tmr \in timers : deleteIfExpired(tmr)
    \/ \E d \in StaleTickSteps : ticks < MaxStaleTicks /\ Tick(d)

StaleSpec == BlogInit /\ [][StaleNext]_vars

-----------------------------------------------------------------------------
(* A client pages through the listing: a first request without a cursor,   *)
(* then one request per nextCursor it receives, with the same limit and    *)
(* sort, while the table does not change                                   *)

\* The tables the walk starts from: the second post pending, approved and
\* never viewed, or approved and viewed more often than the first.
PageTables ==
    {[InitDb EXCEPT !["r2"] = row] :
        row \in {[status |-> "pending", views |-> 0],
                  [status |-> "approved", views |-> 0],
                  [status |-> "approved", views |-> InitViews + 2]}}

\* <<req.query.limit, req.query.sort>> of a walk: one post per page or the
\* default page size, by date or by views.
PageInputs == {1, 0} \X {"", "views"}

\* The first request of the walk.
FirstPage(limit, sort) == StartListing(1, limit, "", sort)

\* The client sends the nextCursor of the response to request r - 1 back as
\* the cursor of request r.
NextPage(r) ==
    /\ r > 1
    /\ lreq[r - 1].pc = "done"
    /\ lreq[r - 1].status = "200"
    /\ lreq[r - 1].nextCursor # NullCursor
    /\ StartListing(r, lreq[r - 1].limit, lreq[r - 1].nextCursor, lreq[r - 1].sort)

PageNext ==
    \/ \E in \in PageInputs : FirstPage(in[1], in[2])
    \/ \E r \in ListReqs : NextPage(r)
    \/ \E r \in ListReqs : QueryListing(r)
    \/ \E r \in ListReqs : RespondListing(r)
    \/ \E r \in ListReqs : FailListing(r)
    \/ \E tmr \in timers : deleteIfExpired(tmr)
    \/ \E d \in ListTickSteps : ticks < MaxListTicks /\ Tick(d)

PageInit ==
    /\ now = 0
    /\ ticks = 0
    /\ cache = EmptyMap
    /\ timers = {}
    /\ last = [op |-> "none"]
    /\ lastSet = [k \in Keys |-> Null]
    /\ jwtSecret = EnvSecret
    /\ session = [s \in Sessions |-> Null]
    /\ resp = [mw |-> "none"]
    /\ jar = [c \in Sessions |-> Null]
    /\ held = Null
    /\ lastLogin = [a \in Admins |-> Null]
    /\ db \in PageTables
    /\ lock = [id \in BlogIds |-> NoLock]
    /\ req = [r \in Reqs |-> IdleReq]
    /\ proc = "up"
    /\ lreq = [r \in ListReqs |-> IdleListReq]
    /\ workers = [w \in WorkerIds |-> IF w <= numCPUs THEN "online" ELSE "unborn"]
    /\ inbox = {}
    /\ primary = RunningPrimary

PageSpec == PageInit /\ [][PageNext]_vars

-----------------------------------------------------------------------------
(* The detail cache under moderation: GET /api/blogs/:id for an approved   *)
(* post that an admin rejects or deletes (routes/admin.ts), with the store *)
(* available: every statement of the handlers succeeds                     *)

\* DELETE /api/admin/blogs/:id by an authenticated admin: the row is removed.
\* The DELETE waits for a transaction that holds the row lock.
DeleteBlog(id) ==
    /\ proc = "up"
    /\ db[id] # NoRow
    /\ lock[id] = NoLock
    /\ db' = [db EXCEPT ![id] = NoRow]
    /\ UNCHANGED <<now, ticks, cacheVars, authVars, clientVars, clusterVars, lock, req, proc, lreq>>

\* The post that is requested and moderated
DetailIds == {"r1"}

\* The clock is observed again when the entries of the first instant have expired.
ModTickSteps == {61000}
MaxModTicks == 1

ModNext ==
    \/ \E r \in Reqs, id \in DetailIds : StartDetail(r, id)
    \/ \E r \in Reqs : BgUpdate(r)
    \/ \E r \in Reqs : BgCommit(r)
    \/ \E r \in Reqs : MissUpdate(r)
    \/ \E r \in Reqs : MissSelect(r)
    \/ \E r \in Reqs : MissRespond(r)
    \/ \E id \in DetailIds : SetStatus(id, "rejected")
    \/ \E id \in DetailIds : DeleteBlog(id)
    \/ \E tmr \in timers : deleteIfExpired(tmr)
    \/ \E d \in ModTickSteps : ticks < MaxModTicks /\ Tick(d)

ModSpec == BlogInit /\ [][ModNext]_vars

-----------------------------------------------------------------------------
(* server.ts, start(): the cluster primary, its workers and SIGTERM. A     *)
(* worker is "unborn" until it is forked, "online" while it serves,        *)
(* "closing" after it called server.close, "dead" when its process has     *)
(* ended and the primary has not yet run its 'exit' listeners, and         *)
(* "reaped" after that. Every listener of the primary is one step.         *)

\* cluster.workers: a worker is removed right before its 'exit' is emitted.
ClusterWorkers(ws) == {w \in WorkerIds : ws[w] \in {"online", "closing", "dead"}}

\* The workers whose process runs
Alive(ws) == {w \in WorkerIds : ws[w] \in {"online", "closing"}}

\* cluster.fork(): the next worker id comes into being
fork(ws) ==
    LET n == CHOOSE w \in WorkerIds :
                /\ ws[w] = "unborn"
                /\ \A v \in WorkerIds : ws[v] = "unborn" => w <= v
    IN  [ws EXCEPT ![n] = "online"]

\* A worker process dies on its own (an uncaught error, a signal from outside).
WorkerCrash(w) ==
    /\ workers[w] = "online"
    /\ workers' = [workers EXCEPT ![w] = "dead"]
    /\ inbox' = inbox \ {w}
    /\ UNCHANGED <<now, ticks, cacheVars, authVars, clientVars, blogVars, primary>>

\* process.on("SIGTERM") of the primary: "shutdown" is sent to the workers of
\* the moment, the force-kill timer is started for the same workers, and
\* one more 'exit' listener is registered.
Sigterm ==
    /\ primary.state = "running"
    /\ inbox' = inbox \cup Alive(workers)
    /\ primary' = [state |-> "terminating", snapshot |-> ClusterWorkers(workers),
                   killAt |-> now + ForceKillDelay]
    /\ UNCHANGED <<now, ticks, cacheVars, authVars, clientVars, blogVars, workers>>

\* process.on("message") of a worker: on "shutdown" it calls server.close.
ReceiveShutdown(w) ==
    /\ w \in inbox
    /\ workers[w] = "online"
    /\ workers' = [workers EXCEPT ![w] = "closing"]
    /\ inbox' = inbox \ {w}
    /\ UNCHANGED <<now, ticks, cacheVars, authVars, clientVars, blogVars, primary>>

\* The callback of server.close in a worker, once its last connection has
\* ended: closeDatabase() and process.exit(0).
WorkerClosed(w) ==
    /\ workers[w] = "closing"
    /\ workers' = [workers EXCEPT ![w] = "dead"]
    /\ UNCHANGED <<now, ticks, cacheVars, authVars, clientVars, blogVars, inbox, primary>>

\* The force-kill timer of the primary fires: SIGKILL to the workers the
\* SIGTERM handler found.
ForceKill ==
    /\ primary.state = "terminating"
    /\ primary.killAt # -1
    /\ now >= primary.killAt
    /\ workers' = [w \in WorkerIds |->
                      IF w \in primary.snapshot /\ w \in Alive(workers)
                      THEN "dead" ELSE workers[w]]
    /\ inbox' = inbox \ primary.snapshot
    /\ primary' = [primary EXCEPT !.killAt = -1]
    /\ UNCHANGED <<now, ticks, cacheVars, authVars, clientVars, blogVars>>

\* The primary emits 'exit' for worker w and runs its listeners in the order
\* of their registration: the one of start(), which forks a replacement, and
\* then, after a SIGTERM, the one that exits when cluster.workers is empty.
OnExit(w) ==
    /\ primary.state # "exited"
    /\ workers[w] = "dead"
    /\ \E v \in WorkerIds : workers[v] = "unborn"
    /\ \E ws \in {fork([workers EXCEPT ![w] = "reaped"])} :
        /\ workers' = ws
        /\ primary' = IF primary.state = "terminating" /\ ClusterWorkers(ws) = {}
                      THEN [primary EXCEPT !.state = "exited", !.killAt = -1]
                      ELSE primary
    /\ UNCHANGED <<now, ticks, cacheVars, authVars, clientVars, blogVars, inbox>>

ClusterNext ==
    \/ \E w \in WorkerIds : WorkerCrash(w)
    \/ Sigterm
    \/ \E w \in WorkerIds : ReceiveShutdown(w)
    \/ \E w \in WorkerIds : WorkerClosed(w)
    \/ ForceKill
    \/ \E w \in WorkerIds : OnExit(w)
    \/ \E d \in ClusterTickSteps : ticks < MaxClusterTicks /\ Tick(d)

ClusterSpec == BlogInit /\ [][ClusterNext]_vars

\* The event loops run the callbacks that are due: a message that arrived is
\* handled, a timer that is due fires, an 'exit' is emitted, the clock
\* advances. Nothing obliges a worker to crash, or its connections to end.
ClusterFairSpec ==
    /\ ClusterSpec
    /\ WF_vars(\E w \in WorkerIds : ReceiveShutdown(w))
    /\ WF_vars(ForceKill)
    /\ WF_vars(\E w \in WorkerIds : OnExit(w))
    /\ WF_vars(\E d \in ClusterTickSteps : ticks < MaxClusterTicks /\ Tick(d))

-----------------------------------------------------------------------------
(* Reading a step off the observation variables *)

\* The step is a call get(k): only get writes a "get" observation, and only
\* the clock, which leaves the observation alone, moves now.
GetStep(k) == last'.op = "get" /\ last'.key = k /\ now' = now

\* The step is a call set(k, ., .).
SetStep(k) == last'.op = "set" /\ last'.key = k /\ now' = now

\* The step runs the timer callback tmr.
TimerStep(tmr) == tmr \in timers /\ timers' = timers \ {tmr} /\ last'.op = "timer"

\* The expiry instant the most recent set on k computed.
SetExpiry(k) == lastSet[k].at + lastSet[k].ttl * MsPerSecond

\* k was set and neither delete(k) nor clear() followed.
Written(k) == lastSet[k] # Null /\ ~lastSet[k].deleted

-----------------------------------------------------------------------------
(* The claims about MemoryCache, checked under CacheSpec *)

\* C1: for every key k, value v and ttl t > 0, a get(k) issued right after
\* set(k, v, t) with no time elapsed returns v, and a get(k) issued once the
\* clock is past t seconds after that set returns null.
C1_SetThenGet ==
    [][\A k \in Keys : GetStep(k) =>
          /\ (last.op = "set" /\ last.key = k /\ lastSet[k].ttl > 0
                 /\ lastSet[k].at = now)
                => last'.ret = lastSet[k].value
          /\ (lastSet[k] # Null /\ lastSet[k].ttl > 0 /\ now > SetExpiry(k))
                => last'.ret = Null]_vars

\* C1 witness: a get on a key whose positive ttl has run out returned null.
C1_Witness ==
    /\ last.op = "get"
    /\ last.ret = Null
    /\ Written(last.key)
    /\ lastSet[last.key].ttl > 0
    /\ now > SetExpiry(last.key)

\* C2 (as claimed): get never returns an entry once now >= expiresAt; at the
\* instant now = expiresAt it returns null, and it returns the value only when
\* expiresAt > now. Stated for entries stored with a positive ttl, so that the
\* instant of expiry is later than the instant of the set.
C2_NeverReturnedAtExpiry ==
    [][\A k \in Keys :
          (GetStep(k) /\ k \in DOMAIN cache /\ Written(k) /\ lastSet[k].ttl > 0
              /\ now >= cache[k].expiry)
             => last'.ret = Null]_vars

\* C3: a get on a key whose entry is expired (the clock is past its expiry)
\* returns null, whoever calls it and in whatever order; the entry is gone from
\* the store afterwards, the size drops by one exactly when the entry was still
\* there and not at all otherwise, no other entry is touched, and the outcome is
\* the one of a get on a key that was never set.
C3_ExpiredGetIdempotent ==
    [][\A k \in Keys :
          (GetStep(k) /\ (k \notin DOMAIN cache \/ cache[k].expiry < now)) =>
             /\ last'.ret = Null
             /\ k \notin DOMAIN cache'
             /\ MemoryCache_size(cache') =
                   MemoryCache_size(cache) - (IF k \in DOMAIN cache THEN 1 ELSE 0)
             /\ \A j \in DOMAIN cache \ {k} :
                   j \in DOMAIN cache' /\ cache'[j] = cache[j]]_vars

\* C3 witness: a get answered null for a key that had been set, was never
\* deleted or cleared, and whose expiry has passed; the entry is gone.
C3_Witness ==
    /\ last.op = "get"
    /\ last.ret = Null
    /\ Written(last.key)
    /\ SetExpiry(last.key) < now
    /\ last.key \notin DOMAIN cache

\* C4: the timer callback scheduled by a set deletes the key only if the entry
\* stored under it at fire time is expired; an entry that a later set stored
\* with an expiry still ahead is left in place, and get returns its value.
C4_StaleTimerKeepsNewer ==
    [][\A tmr \in timers : TimerStep(tmr) =>
          LET k == tmr.key IN
          /\ (k \in DOMAIN cache /\ k \notin DOMAIN cache') => cache[k].expiry < now
          /\ (k \in DOMAIN cache /\ cache[k].expiry > now) =>
                /\ cache' = cache
                /\ MemoryCache_get(cache', k, now).ret = cache[k].value
          /\ \A j \in DOMAIN cache \ {k} :
                j \in DOMAIN cache' /\ cache'[j] = cache[j]]_vars

\* C4 witness: a timer callback ran (so the expiry of the set that scheduled it
\* has passed) and the key holds an entry whose expiry is still ahead.
C4_Witness ==
    /\ last.op = "timer"
    /\ last.key \in DOMAIN cache
    /\ cache[last.key].expiry > now
    /\ lastSet[last.key].value = cache[last.key].value

\* C5 (as claimed): an entry stored with ttl <= 0 is returned by every later
\* get until a delete or clear.
C5_NonPositiveTtlImmortal ==
    [][\A k \in Keys :
          (GetStep(k) /\ Written(k) /\ lastSet[k].ttl <= 0)
             => last'.ret = lastSet[k].value]_vars

\* C5 (amended): a set with ttl <= 0 schedules no timer and stores an expiry
\* that is not after the instant of the set; a later get returns the value only
\* when ttl = 0 and the clock still reads the instant of the set, and otherwise
\* returns null and removes the entry.
C5_NonPositiveTtlLazyExpiry ==
    [][\A k \in Keys :
          /\ (SetStep(k) /\ lastSet'[k].ttl <= 0) =>
                /\ timers' = timers
                /\ cache'[k].expiry <= now
          /\ (GetStep(k) /\ Written(k) /\ lastSet[k].ttl <= 0) =>
                IF lastSet[k].ttl = 0 /\ lastSet[k].at = now
                THEN last'.ret = lastSet[k].value
                ELSE last'.ret = Null /\ k \notin DOMAIN cache']_vars

\* C5 witness: a get returned null for a key stored with ttl <= 0 and never
\* deleted or cleared.
C5_Witness ==
    /\ last.op = "get"
    /\ last.ret = Null
    /\ Written(last.key)
    /\ lastSet[last.key].ttl <= 0

\* C6: whatever the order of the set, get, delete, clear and timer steps, the
\* store stays a map from keys to entries, and while the most recent set on a
\* key is not expired and no delete or clear followed it, the store holds
\* exactly that entry and a get on the key returns its value.
C6_LastWriteWins ==
    /\ DOMAIN cache \subseteq Keys
    /\ \A k \in DOMAIN cache : DOMAIN cache[k] = {"value", "expiry"}
    /\ \A k \in Keys :
          (Written(k) /\ SetExpiry(k) >= now) =>
             /\ k \in DOMAIN cache
             /\ cache[k] = [value |-> lastSet[k].value, expiry |-> SetExpiry(k)]
             /\ (last.op = "get" /\ last.key = k) => last.ret = lastSet[k].value

\* C6 witness: two sets on the same key at different instants (their timers
\* are both pending) and a get that returned the value of the later one.
C6_Witness ==
    /\ last.op = "get"
    /\ Written(last.key)
    /\ last.ret = lastSet[last.key].value
    /\ \E a, b \in timers :
          a.key = last.key /\ b.key = last.key /\ a.fireAt < b.fireAt

-----------------------------------------------------------------------------
(* The claims about the identity resolver, checked under AuthSpec *)

\* The step runs verifyJWT for a request on session s: only that middleware
\* writes a "verifyJWT" observation, the clock moves now, and a timer callback
\* takes its timer out of the pending set.
VerifyStep(s) ==
    /\ resp'.mw = "verifyJWT"
    /\ resp'.sess = s
    /\ now' = now
    /\ timers \subseteq timers'

\* The token the resolver is to use: the signed cookie when there is one,
\* otherwise the token of a Bearer Authorization header, otherwise none.
Candidate(cookie, auth) ==
    IF cookie # Null THEN cookie
    ELSE IF auth # Null /\ auth.scheme = "Bearer" THEN auth.token
    ELSE Null

\* The token cache answers for key at clock reading t.
CacheHit(store, key, t) == key \in DOMAIN store /\ store[key].expiry >= t

\* C7: when the session already carries an identity, verifyJWT continues with
\* exactly that identity attached to the request, whatever cookie and header the
\* request carries, and neither reads nor writes the token cache, calls
\* jwt.verify or changes any session.
C7_SessionWins ==
    [][\A s \in Sessions :
          (VerifyStep(s) /\ session[s] # Null) =>
             /\ resp'.status = "next"
             /\ resp'.admin = session[s]
             /\ ~resp'.looked
             /\ ~resp'.verified
             /\ cache' = cache
             /\ timers' = timers
             /\ session' = session]_vars

\* C7 witness: a request resolved from the session while its cookie carried a
\* token that verifies to a different identity.
C7_Witness ==
    /\ resp.mw = "verifyJWT"
    /\ resp.path = "session"
    /\ resp.status = "next"
    /\ resp.cookie # Null
    /\ jwt_verify(resp.cookie, jwtSecret, now).ok
    /\ jwt_verify(resp.cookie, jwtSecret, now).payload.id # resp.admin.id

\* C8 (as claimed): a resolver that finds no session identity takes the cookie
\* token when the cookie is present and the Bearer header token only when it is
\* absent, and rejects the request, attaching no identity, when neither yields
\* a token.
C8_CookieBeforeHeader ==
    (resp.mw \in {"verifyJWT", "verifyJWT_v2", "validate"} /\ resp.path # "session") =>
        IF Candidate(resp.cookie, resp.auth) = Null
        THEN resp.status = "401" /\ resp.admin = Null /\ resp.token = Null
        ELSE resp.token = Candidate(resp.cookie, resp.auth)

\* C9: with no session identity, a token-cache hit authenticates the request
\* with the cached payload and writes it into the session; a miss followed by a
\* successful jwt.verify stores the verified payload under the token's key with
\* an expiry 300 seconds ahead, schedules its cleanup, and writes the payload
\* into the session. After either, any request on that session is resolved from
\* the session, to the same identity.
C9_BackfillCacheAndSession ==
    [][\A s \in Sessions :
          (VerifyStep(s) /\ session[s] = Null
              /\ Candidate(resp'.cookie, resp'.auth) # Null) =>
             LET tok == Candidate(resp'.cookie, resp'.auth)
                 key == getTokenCacheKey(tok)
                 v   == jwt_verify(tok, jwtSecret, now)
             IN
             /\ CacheHit(cache, key, now) =>
                   /\ resp'.status = "next"
                   /\ resp'.admin = cache[key].value
                   /\ session'[s] = cache[key].value
                   /\ ~resp'.verified
             /\ (~CacheHit(cache, key, now) /\ v.ok) =>
                   /\ resp'.status = "next"
                   /\ resp'.admin = v.payload
                   /\ session'[s] = v.payload
                   /\ key \in DOMAIN cache'
                   /\ cache'[key] = [value |-> v.payload, expiry |-> now + 300 * 1000]
                   /\ [key |-> key, fireAt |-> now + 300 * 1000] \in timers'
             /\ resp'.status = "next" =>
                   \A rq \in RequestInputs :
                      LET nxt == verifyJWT(session'[s], rq[1], rq[2], cache', timers',
                                           jwtSecret, now')
                      IN  nxt.path = "session" /\ nxt.admin = resp'.admin]_vars

\* C9 witness: a request authenticated from the token cache, whose session now
\* holds the cached payload.
C9_Witness ==
    /\ resp.mw = "verifyJWT"
    /\ resp.path = "cache"
    /\ resp.status = "next"
    /\ session[resp.sess] = resp.admin
    /\ \E s \in Sessions : s # resp.sess /\ session[s] = resp.admin

\* C10 (as claimed): when jwt.verify fails on a cache miss, the request is
\* rejected with 401, no identity is attached, and the token cache and the
\* sessions are unchanged.
C10_RejectLeavesAllUnchanged ==
    [][\A s \in Sessions :
          (VerifyStep(s) /\ session[s] = Null
              /\ Candidate(resp'.cookie, resp'.auth) # Null
              /\ ~CacheHit(cache, getTokenCacheKey(Candidate(resp'.cookie, resp'.auth)), now)
              /\ ~jwt_verify(Candidate(resp'.cookie, resp'.auth), jwtSecret, now).ok) =>
             /\ resp'.status = "401"
             /\ resp'.admin = Null
             /\ session' = session
             /\ cache' = cache]_vars

\* C10 (amended): when jwt.verify fails on a cache miss, the request is rejected
\* with 401, no identity is attached and the sessions are unchanged; nothing is
\* added to the token cache and no timer is scheduled, and the only change the
\* cache can undergo is the removal of an expired entry stored under the
\* token's key.
C10_RejectAddsNothing ==
    [][\A s \in Sessions :
          (VerifyStep(s) /\ session[s] = Null
              /\ Candidate(resp'.cookie, resp'.auth) # Null
              /\ ~CacheHit(cache, getTokenCacheKey(Candidate(resp'.cookie, resp'.auth)), now)
              /\ ~jwt_verify(Candidate(resp'.cookie, resp'.auth), jwtSecret, now).ok) =>
             LET key == getTokenCacheKey(Candidate(resp'.cookie, resp'.auth)) IN
             /\ resp'.status = "401"
             /\ resp'.admin = Null
             /\ session' = session
             /\ timers' = timers
             /\ cache' = (IF key \in DOMAIN cache THEN MapDelete(cache, key) ELSE cache)]_vars

\* C10 witness: a correctly signed token was rejected because it is past its
\* expiry, and no session carries an identity from it.
C10_Witness ==
    /\ resp.mw = "verifyJWT"
    /\ resp.status = "401"
    /\ resp.path = "invalid"
    /\ resp.token = TokOld
    /\ jwtSecret = EnvSecret
    /\ session[resp.sess] = Null
    /\ getTokenCacheKey(TokOld) \notin DOMAIN cache

\* C11 (as claimed): a request whose only credential is a token that is past
\* its own expiry instant is never resolved as authenticated: with no identity
\* in the session, a JWT whose exp is not after the clock is answered 401.
C11_ExpiredTokenNeverAuthenticated ==
    [][\A s \in Sessions :
          (VerifyStep(s) /\ session[s] = Null
              /\ Candidate(resp'.cookie, resp'.auth) # Null
              /\ Candidate(resp'.cookie, resp'.auth).jwt
              /\ (now \div MsPerSecond) >= Candidate(resp'.cookie, resp'.auth).exp) =>
             /\ resp'.status = "401"
             /\ resp'.admin = Null]_vars

-----------------------------------------------------------------------------
(* The claims about login and logout, checked under LoginSpec *)

\* Client c logged in and then logged out: the token of its login is known,
\* and its browser no longer holds the cookie (within the run no cookie
\* reaches its maxAge of 30 minutes).
LoggedOut(c) == held # Null /\ jar[c] = Null

\* C12 (as claimed): after logout, a request of the logged-out client, which
\* no longer carries the cookie, is rejected with "Authentication required"
\* (NoCredential), while a request carrying the old token in its
\* Authorization header is authenticated as long as the token has not expired.
C12_AfterLogoutCookieRejectedHeaderAccepted ==
    [][\A c \in Browsers :
          (VerifyStep(c) /\ LoggedOut(c)) =>
             /\ resp'.auth = Null =>
                   /\ resp'.status = "401"
                   /\ resp'.path = "nocred"
             /\ (resp'.auth # Null /\ (now \div MsPerSecond) < held.exp) =>
                   /\ resp'.status = "next"
                   /\ resp'.admin.username = held.username]_vars

\* C12 (amended): logout leaves the client without cookie and without session
\* identity; after it, a request of that client without Authorization header
\* is rejected with "Authentication required" as long as its session holds no
\* identity, and a request carrying the old token in its Authorization header
\* is authenticated as long as the token has not expired, and puts the
\* identity back into the sender's session, from where later requests
\* without any credential are authenticated.
C12_LogoutUntilHeaderReuse ==
    [][/\ resp'.mw = "logout" =>
             /\ session'[resp'.sess] = Null
             /\ jar'[resp'.sess] = Null
       /\ \A c \in Browsers :
             (VerifyStep(c) /\ LoggedOut(c)) =>
                /\ (resp'.auth = Null /\ session[c] = Null) =>
                      /\ resp'.status = "401"
                      /\ resp'.path = "nocred"
                      /\ session'[c] = Null
                /\ (resp'.auth = Null /\ session[c] # Null) =>
                      /\ resp'.status = "next"
                      /\ resp'.path = "session"
                /\ (resp'.auth # Null /\ (now \div MsPerSecond) < held.exp) =>
                      /\ resp'.status = "next"
                      /\ resp'.admin.username = held.username
                      /\ session'[c] # Null]_vars

\* C12 witness: the logged-out client was authenticated by the old token in
\* the Authorization header, found neither in its session nor in a cookie.
C12_Witness ==
    /\ resp.mw = "verifyJWT"
    /\ resp.sess \in Browsers
    /\ LoggedOut(resp.sess)
    /\ resp.auth = Bearer(held)
    /\ resp.path \in {"cache", "verify"}
    /\ resp.status = "next"

-----------------------------------------------------------------------------
(* The claims about the view counter of GET /api/blogs/:id, checked under  *)
(* BlogSpec                                                                *)

\* The step is the arrival of request r for post id.
StartStep(r, id) == req[r].pc = "idle" /\ req'[r].pc # "idle" /\ req'[r].id = id

\* The step is a cache.set made by request r: the refresh at the end of its
\* background transaction, or the fill at the end of its miss.
RefreshStep(r) ==
    \/ req[r].pc = "bgTx" /\ req'[r].pc = "bgCommit"
    \/ req[r].pc = "missRespond" /\ req'[r].pc = "done"

C14_MissIncrementAndReadAtomic ==
    [][\A r \in Reqs :
          req[r].pc = "missSelect" =>
             db'[req[r].id].views = db[req[r].id].views]_vars

\* The requests for post id whose increment is committed.
Committed(id) == {r \in Reqs : req[r].id = id /\ req[r].committed}

\* No handler and no background transaction is under way.
Quiescent == \A r \in Reqs : req[r].pc \in {"idle", "done"}

\* The requests for post id that arrived.
Arrived(id) == {r \in Reqs : req[r].id = id}

\* C15: the persisted counter of a post is its initial value plus the number
\* of requests whose increment is committed; so once the N requests that
\* arrived for an approved post are answered 200 and their background
\* transactions are committed, the counter is the initial value plus N.
C15_CounterCountsEveryRequest ==
    \A id \in BlogIds :
       /\ db[id].views = InitDb[id].views + Cardinality(Committed(id))
       /\ (/\ Quiescent
           /\ db[id].status = "approved"
           /\ \A r \in Arrived(id) : req[r].status = "200" /\ ~req[r].logged)
             => db[id].views = InitDb[id].views + Cardinality(Arrived(id))

\* C15 witness: all requests of the run were for the approved post, some
\* answered from the cache and some from the table, all transactions
\* committed, and the counter has grown by their number.
C15_Witness ==
    /\ Quiescent
    /\ Arrived("r1") = Reqs
    /\ \A r \in Reqs : req[r].status = "200" /\ ~req[r].logged
    /\ \E r \in Reqs : req[r].path = "hit"
    /\ \E r \in Reqs : req[r].path = "miss"
    /\ db["r1"].views = InitViews + MaxReqs

\* C16 (as claimed): at every instant the views value of a live detail-cache
\* entry is behind the persisted counter by at most one.
C16_CacheLagsByAtMostOne ==
    \A id \in BlogIds :
       CacheHit(cache, getBlogPostCacheKey(id), now) =>
          db[id].views - cache[getBlogPostCacheKey(id)].value.views <= 1

\* The optimistic hits in flight in state rq: answered from the cache, their
\* background transaction not finished.
HitsInFlight(rq, id) ==
    {q \in Reqs : rq[q].id = id /\ rq[q].path = "hit"
                     /\ rq[q].pc \in {"bgTx", "bgCommit"}}

\* The step answers request r with status 200.
AnswerStep(r) == req[r].status = "none" /\ req'[r].status = "200"

\* C17 (as claimed): the views value a client observes lies between a value p
\* the persisted counter has held and p plus the number of optimistic hits in
\* flight when it is answered, its own request included.
C17_ObservedWithinInFlightHits ==
    [][\A r \in Reqs :
          AnswerStep(r) =>
             \E p \in InitDb[req'[r].id].views .. db[req'[r].id].views :
                /\ p <= req'[r].views
                /\ req'[r].views <= p + Cardinality(HitsInFlight(req', req'[r].id))]_vars

\* The step is the failure of the background transaction of request r.
BgFailStep(r) == ~req[r].logged /\ req'[r].logged

\* C18: when the background transaction of a hit fails, the failure is logged
\* and nothing else: the response the client got is untouched, no other
\* request is affected, the process stays up, the transaction is not started
\* again, and neither the table nor the cache change. No request ever starts
\* its background transaction more than once.
C18_BackgroundFailureOnlyLogged ==
    [][/\ \A r \in Reqs : req'[r].attempts <= 1
       /\ proc' = "up"
       /\ \A r \in Reqs :
             BgFailStep(r) =>
                /\ req[r].path = "hit"
                /\ req'[r] = [req[r] EXCEPT !.pc = "done", !.logged = TRUE]
                /\ req'[r].attempts = 1
                /\ \A q \in Reqs \ {r} : req'[q] = req[q]
                /\ db' = db
                /\ cache' = cache
                /\ lock'[req[r].id] # r]_vars

\* C18 witness: a request answered from the cache, whose background
\* transaction failed after its UPDATE and was rolled back, next to a later
\* request that was answered all the same.
C18_Witness ==
    \E r, q \in Reqs :
       /\ r < q
       /\ req[r].pc = "done" /\ req[r].logged /\ req[r].status = "200"
       /\ ~req[r].committed /\ req[r].read # Null
       /\ req[q].status = "200"
       /\ proc = "up"

\* C19: scenario C. With the cache cold and the counter at v0, a first
\* request alone is answered v0 + 1 from the table and leaves v0 + 1 in the
\* cache; a second request that finds that entry is answered v0 + 2 from the
\* cache, and once its background transaction is committed the cache and the
\* table hold v0 + 2.
C19_ScenarioC ==
    \A id \in BlogIds :
       LET key == getBlogPostCacheKey(id) IN
       (/\ db[id].status = "approved"
        /\ req[1].id = id /\ req[1].path = "miss" /\ req[1].status = "200"
        /\ req[2].pc = "idle" \/ (req[2].id = id /\ req[2].path = "hit")
        /\ req[3].pc = "idle") =>
          /\ req[1].views = InitDb[id].views + 1
          /\ (req[2].pc = "idle" /\ key \in DOMAIN cache)
                => cache[key].value.views = InitDb[id].views + 1
          /\ (req[2].id = id /\ req[2].path = "hit") =>
                /\ req[2].views = InitDb[id].views + 2
                /\ req[2].source = "cache"
                /\ (req[2].pc = "done" /\ req[2].committed) =>
                      /\ db[id].views = InitDb[id].views + 2
                      /\ key \in DOMAIN cache
                            => cache[key].value.views = InitDb[id].views + 2

\* C19 witness: the scenario has run to its end.
C19_Witness ==
    /\ req[1].id = "r1" /\ req[1].path = "miss" /\ req[1].status = "200"
    /\ req[1].views = InitViews + 1
    /\ req[2].id = "r1" /\ req[2].path = "hit" /\ req[2].views = InitViews + 2
    /\ req[2].pc = "done" /\ req[2].committed
    /\ req[3].pc = "idle"
    /\ CacheHit(cache, getBlogPostCacheKey("r1"), now)
    /\ cache[getBlogPostCacheKey("r1")].value.views = InitViews + 2
    /\ db["r1"].views = InitViews + 2

-----------------------------------------------------------------------------
(* The claims about the listing cache of GET /api/blogs, checked under     *)
(* ListSpec                                                                *)

\* The query a listing request asks: page size, cursor and sort field as the
\* handler parses them.
QueryShape(limit, cursor, sort) == <<parseLimit(limit), cursor, parseSort(sort)>>

\* Listing request q was answered from the table and populated the cache
\* with its rows, for the query shape.
Populated(q, shape) ==
    /\ lreq[q].pc = "done"
    /\ lreq[q].source = "database"
    /\ QueryShape(lreq[q].limit, lreq[q].cursor, lreq[q].sort) = shape

\* The step is the arrival of listing request r with the query in.
StartListStep(r, in) ==
    /\ lreq[r].pc = "idle"
    /\ lreq'[r].pc # "idle"
    /\ <<lreq'[r].limit, lreq'[r].cursor, lreq'[r].sort>> = in

\* C20 (as claimed): a listing request with the same (limit, cursor, sort) as
\* a request that populated the cache less than 30 s ago is answered from the
\* cache, with the rows and nextCursor of a request of that shape, and asks
\* the store nothing; and a request answered from the cache always receives
\* an entry that a request of its own query shape populated.
C20_ListingCacheKeyedByQueryShape ==
    [][\A r \in ListReqs, in \in ListInputs :
          StartListStep(r, in) =>
             LET key == getBlogListCacheKey(parseLimit(in[1]), in[2], parseSort(in[3]))
                 shape == QueryShape(in[1], in[2], in[3])
             IN  /\ (/\ \E q \in ListReqs : Populated(q, shape)
                     /\ key \in DOMAIN cache
                     /\ now < cache[key].expiry) =>
                       /\ lreq'[r].pc = "done"
                       /\ lreq'[r].status = "200"
                       /\ lreq'[r].source = "cache"
                       /\ lreq'[r].readAt = -1
                       /\ lreq'[r].rows = cache[key].value.rows
                       /\ lreq'[r].nextCursor = cache[key].value.nextCursor
                 /\ lreq'[r].source = "cache" =>
                       \E q \in ListReqs :
                          /\ Populated(q, shape)
                          /\ lreq[q].rows = lreq'[r].rows
                          /\ lreq[q].nextCursor = lreq'[r].nextCursor]_vars


\* The keys of the listing cache
ListKeys ==
    {getBlogListCacheKey(parseLimit(in[1]), in[2], parseSort(in[3])) : in \in ListInputs}

\* The key listing request r reads and writes
ListKeyOf(r) ==
    getBlogListCacheKey(parseLimit(lreq[r].limit), lreq[r].cursor, parseSort(lreq[r].sort))

\* The step is the cache.set of listing request r, answered from the table.
PopulateStep(r) == lreq[r].pc = "respond" /\ lreq'[r].pc = "done"

\* The step answers the arriving listing request r from the cache.
ListHitStep(r) ==
    lreq[r].pc = "idle" /\ lreq'[r].pc = "done" /\ lreq'[r].source = "cache"

\* The entry under key k is the same before and after the step.
EntryUntouched(k) ==
    /\ (k \in DOMAIN cache) = (k \in DOMAIN cache')
    /\ k \in DOMAIN cache => cache'[k] = cache[k]

\* The step puts a value under key k that was not there before.
EntryReplaced(k) ==
    /\ k \in DOMAIN cache'
    /\ k \notin DOMAIN cache \/ cache'[k].value # cache[k].value

ListTtlMs == LIST_CACHE_TTL * MsPerSecond

\* C21 (as claimed): the mutation of a record leaves every cached listing as
\* it was; a cached listing is replaced only by a population that follows the
\* expiry of the entry it replaces; and the rows of every listing response
\* were read from the table at most 30 s before the response.
C21_ListingStaleAtMostTtl ==
    [][/\ db' # db => \A k \in ListKeys : EntryUntouched(k)
       /\ \A k \in ListKeys :
             EntryReplaced(k) =>
                /\ \E r \in ListReqs : PopulateStep(r) /\ ListKeyOf(r) = k
                /\ k \in DOMAIN cache => cache[k].expiry < now
       /\ \A r \in ListReqs :
             /\ PopulateStep(r) => now - lreq[r].readAt <= ListTtlMs
             /\ ListHitStep(r) =>
                   now - cache[ListKeyOf(r)'].value.readAt <= ListTtlMs]_vars

\* C21 (amended): the mutation of a record leaves every cached listing as it
\* was; a cached listing is replaced only by the cache.set of a request of
\* the same key, which stores the rows that request read, to expire 30 s
\* after the cache.set; and a response from the cache serves the rows of an
\* entry that was stored at most 30 s before the response, rows that were
\* read no later than they were stored.
C21_ListingStaleAtMostTtlSinceStored ==
    [][/\ db' # db => \A k \in ListKeys : EntryUntouched(k)
       /\ \A k \in ListKeys :
             EntryReplaced(k) =>
                \E r \in ListReqs :
                   /\ PopulateStep(r) /\ ListKeyOf(r) = k
                   /\ cache'[k].value.rows = lreq[r].rows
                   /\ cache'[k].expiry = now + ListTtlMs
                   /\ lreq[r].readAt <= now
       /\ \A r \in ListReqs :
             ListHitStep(r) =>
                LET k == ListKeyOf(r)' IN
                /\ k \in DOMAIN cache
                /\ now - (cache[k].expiry - ListTtlMs) <= ListTtlMs
                /\ lreq'[r].rows = cache[k].value.rows
                /\ cache[k].value.readAt <= cache[k].expiry - ListTtlMs]_vars

\* C21 witness: the second request for the first page was answered from the
\* cache with rows read before an admin approved the pending post, which the
\* page therefore does not show.
C21_Witness ==
    /\ lreq[2].pc = "done" /\ lreq[2].source = "cache"
    /\ lreq[2].limit = 0 /\ lreq[2].cursor = "" /\ lreq[2].sort = ""
    /\ ListKeyOf(2) \in DOMAIN cache
    /\ cache[ListKeyOf(2)].value.readAt < now
    /\ db["r2"].status = "approved"
    /\ \A i \in 1..Len(lreq[2].rows) : lreq[2].rows[i].id # "r2"


-----------------------------------------------------------------------------
(* The claims about POST /login, POST /logout and GET /validate of the      *)
(* router mounted at /api/auth, checked under LoginSpec                     *)

\* The step is the answer to a POST /login of client c.
LoginStep(c) ==
    /\ resp'.mw = "login" /\ resp'.sess = c
    /\ now' = now /\ cache' = cache /\ timers' = timers

\* The step is the answer to a GET /validate of client c.
ValidateStep(c) ==
    /\ resp'.mw = "validate_js" /\ resp'.sess = c
    /\ now' = now /\ cache' = cache /\ timers' = timers

\* C22 (as claimed): when POST /login finds the admin, the password matches
\* and the statement that records the login has run, the response is 200 and
\* carries a token (in the admin_token cookie) whose verification under the
\* server's secret yields the id and username of that admin's row.
C22_LoginTokenRoundTrip ==
    [][\A c \in Browsers :
          (LoginStep(c) /\ resp'.touched) =>
             /\ resp'.status = "200"
             /\ jar'[c] # Null
             /\ jwt_verify(jar'[c], jwtSecret, now).ok
             /\ jwt_verify(jar'[c], jwtSecret, now).payload.id
                   = AdminRow(resp'.username).id
             /\ jwt_verify(jar'[c], jwtSecret, now).payload.username
                   = AdminRow(resp'.username).username]_vars

\* C23 (as claimed): a client that has logged in and not logged out since
\* (it still holds the admin_token cookie, its session holds the identity)
\* is answered 200, success and authenticated by GET /validate.
C23_ValidateAfterLogin ==
    [][\A c \in Browsers :
          (ValidateStep(c) /\ jar[c] # Null /\ session[c] # Null) =>
             /\ resp'.status = "200"
             /\ resp'.body.success
             /\ resp'.body.data.authenticated]_vars

\* C24: a client that is not logged in, because it never logged in or because
\* it logged out after its last login (either way it holds no admin_token
\* cookie), is answered 401 by GET /validate.
C24_ValidateRejectsLoggedOut ==
    [][\A c \in Browsers :
          (ValidateStep(c) /\ jar[c] = Null) =>
             /\ resp'.status = "401"
             /\ ~resp'.body.success]_vars

\* C24 witness: the client logged in, logged out, and was then answered 401 by
\* GET /validate.
C24_Witness ==
    /\ resp.mw = "validate_js" /\ resp.status = "401"
    /\ jar[resp.sess] = Null
    /\ held # Null
    /\ lastLogin["alice"] # Null

\* The credentials POST /login rejects: an unknown username, or a known one
\* with a password that is not the admin's.
BadCredentials ==
    {in \in LoginInputs :
        /\ in[1] # "" /\ in[2] # ""
        /\ in[1] \notin Admins \/ in[2] # AdminRow(in[1]).password}

\* C25: POST /login with an unknown username or a wrong password answers 401
\* (the lookup having succeeded), sets no cookie, stores nothing in the
\* session and does not write last_login; and every login answered 401 leaves
\* cookie jar, session and last_login as they were.
C25_FailedLoginEstablishesNothing ==
    [][/\ \A in \in BadCredentials, o \in {"ok", "updateFails"} :
             LET r == login(in[1], in[2], jwtSecret, now, o)
             IN  r.status = "401" /\ r.token = Null /\ r.admin = Null /\ ~r.touched
       /\ \A c \in Browsers :
             (LoginStep(c) /\ resp'.status = "401") =>
                /\ jar' = jar
                /\ held' = held
                /\ session' = session
                /\ lastLogin' = lastLogin
                /\ ~resp'.touched]_vars

\* C25 witness: a client that never logged in was answered 401 for a wrong
\* password on an existing admin, and holds nothing.
C25_Witness ==
    /\ resp.mw = "login" /\ resp.status = "401" /\ resp.username = "alice"
    /\ jar[resp.sess] = Null /\ session[resp.sess] = Null
    /\ lastLogin["alice"] = Null


-----------------------------------------------------------------------------
(* Further claims about the verifyJWT middleware, checked under AuthSpec    *)

\* The response is a rejection by verifyJWT.
Rejection(r) == r.mw = "verifyJWT" /\ r.status = "401"

\* C26 (as claimed): two requests that verifyJWT rejects, whatever the reasons
\* (no credential, malformed Authorization header, failed verification),
\* receive the same response: of any two consecutive rejections the second
\* has the status and the body of the first.
C26_UniformUnauthorized ==
    [][(Rejection(resp) /\ Rejection(resp')) =>
          /\ resp'.status = resp.status
          /\ resp'.body = resp.body]_vars


TokenTtlMs == TOKEN_CACHE_TTL * MsPerSecond

\* C27 (as claimed): with no session identity, a request whose token has a
\* live entry in the token cache is resolved from the cache without
\* jwt.verify; and during the first 300 s of the process jwt.verify is not
\* invoked for the token it was invoked for by the request before.
C27_VerifyOncePerWindow ==
    [][\A s \in Sessions :
          (VerifyStep(s) /\ session[s] = Null
              /\ Candidate(resp'.cookie, resp'.auth) # Null) =>
             LET tok == Candidate(resp'.cookie, resp'.auth)
                 key == getTokenCacheKey(tok)
             IN
             /\ CacheHit(cache, key, now) =>
                   resp'.path = "cache" /\ ~resp'.verified
             /\ (/\ now < TokenTtlMs
                 /\ resp.mw = "verifyJWT" /\ resp.verified /\ resp.token = tok) =>
                   ~resp'.verified]_vars

\* C27 (amended): with no session identity, a request whose token has a live
\* entry in the token cache is resolved from the cache without jwt.verify, so
\* jwt.verify runs only when no live entry is under the token's key; a
\* successful jwt.verify stores an entry that expires 300 s later, and a live
\* entry is neither removed nor made to expire earlier by any request or
\* timer, so between a successful verification and the expiry of its entry
\* jwt.verify does not run for that token. A failed jwt.verify stores nothing:
\* the next request with that token invokes jwt.verify again.
C27_VerifyOncePerWindowIfValid ==
    [][/\ \A s \in Sessions :
             (VerifyStep(s) /\ session[s] = Null
                 /\ Candidate(resp'.cookie, resp'.auth) # Null) =>
                LET tok == Candidate(resp'.cookie, resp'.auth)
                    key == getTokenCacheKey(tok)
                IN
                /\ CacheHit(cache, key, now) =>
                      resp'.path = "cache" /\ ~resp'.verified
                /\ ~CacheHit(cache, key, now) => resp'.verified
                /\ (resp'.verified /\ resp'.status = "next") =>
                      /\ key \in DOMAIN cache'
                      /\ cache'[key].expiry = now + TokenTtlMs
                /\ (resp'.verified /\ resp'.status = "401") =>
                      key \notin DOMAIN cache'
       /\ now' = now =>
             \A tok \in Tokens :
                CacheHit(cache, getTokenCacheKey(tok), now) =>
                   /\ getTokenCacheKey(tok) \in DOMAIN cache'
                   /\ cache'[getTokenCacheKey(tok)].expiry
                         >= cache[getTokenCacheKey(tok)].expiry]_vars

\* C27 witness: a token verified for one client is presented by another
\* client, which has no session identity, at the very instant its cache entry
\* expires, and is resolved from the cache without a signature check.
C27_Witness ==
    /\ resp.mw = "verifyJWT"
    /\ resp.path = "cache" /\ ~resp.verified
    /\ resp.token = TokA
    /\ now > 0
    /\ getTokenCacheKey(TokA) \in DOMAIN cache
    /\ cache[getTokenCacheKey(TokA)].expiry = now
    /\ \E s \in Sessions : s # resp.sess /\ session[s] # Null


-----------------------------------------------------------------------------
(* The claim about requireRoles, checked under RolesSpec                    *)

\* The step runs requireRoles for a request.
RolesStep == resp'.mw = "requireRoles" /\ now' = now

\* C28: requireRoles rejects a request that the second verifyJWT does not
\* authenticate with that middleware's 401, before any role check and without
\* invoking the protected handler. For an authenticated principal the role is
\* the payload's role, or "admin" when the payload carries none: the
\* principal is admitted (the handler is invoked) exactly when that role is in
\* allowedRoles, so a principal without a role is admitted whenever "admin" is
\* allowed, and every other principal receives 403 and the handler is not
\* invoked.
C28_RequireRoles ==
    [][RolesStep =>
          LET tok == HeaderOrCookieToken(resp'.cookie, resp'.auth)
              v   == IF tok = Null THEN [ok |-> FALSE, payload |-> Null]
                     ELSE jwt_verify(tok, SecretOrFallback(jwtSecret), now)
          IN  IF ~v.ok
              THEN /\ resp'.status = "401"
                   /\ ~resp'.checked
                   /\ ~resp'.invoked
              ELSE LET role == IF RoleClaim(v.payload) = "" THEN "admin"
                               ELSE RoleClaim(v.payload)
                   IN  /\ resp'.checked
                       /\ resp'.role = role
                       /\ (RoleClaim(v.payload) = "" /\ "admin" \in resp'.allowed) =>
                             resp'.status = "next" /\ resp'.invoked
                       /\ role \in resp'.allowed =>
                             resp'.status = "next" /\ resp'.invoked
                       /\ role \notin resp'.allowed =>
                             resp'.status = "403" /\ ~resp'.invoked]_vars

\* C28 witness: a principal whose token carries no role was admitted to a
\* route that allows only "admin".
C28_Witness ==
    /\ resp.mw = "requireRoles"
    /\ resp.allowed = {"admin"}
    /\ resp.cookie = TokA
    /\ resp.status = "next" /\ resp.invoked
    /\ RoleClaim(resp.admin) = ""

\* C28 witness: a principal whose role is "editor" received 403 from a route
\* that allows only "admin".
C28_WitnessForbidden ==
    /\ resp.mw = "requireRoles"
    /\ resp.allowed = {"admin"}
    /\ resp.role = "editor"
    /\ resp.status = "403" /\ ~resp.invoked


-----------------------------------------------------------------------------
(* The token cache key, checked under AuthSpec                              *)

\* jwt.verify can have succeeded on the token at some instant: it succeeds at
\* the instant the token was issued.
Verifiable(tok) == tok.jwt /\ jwt_verify(tok, jwtSecret, tok.iat * MsPerSecond).ok

\* C29 (as claimed): with no session identity, verifyJWT authenticates a
\* request by its token only if jwt.verify can have succeeded on that very
\* token, and the identity it attaches to the request and to the session is
\* the one that token carries; this holds for a token that ends in the 10
\* characters of a verified token as for any other.
C29_OnlyVerifiedTokenAuthenticated ==
    [][\A s \in Sessions :
          (VerifyStep(s) /\ session[s] = Null /\ resp'.status = "next") =>
             LET tok == Candidate(resp'.cookie, resp'.auth)
             IN  /\ tok # Null
                 /\ Verifiable(tok)
                 /\ resp'.admin.id = tok.id
                 /\ resp'.admin.username = tok.username
                 /\ session'[s].id = tok.id]_vars

-----------------------------------------------------------------------------
(* The detail cache against the table, checked under BlogSpec               *)

\* C30 (as claimed): the views held in the detail cache for a post never
\* exceed the committed views of that post.
C30_CacheNeverAheadOfCommitted ==
    \A id \in BlogIds :
       getBlogPostCacheKey(id) \in DOMAIN cache =>
          cache[getBlogPostCacheKey(id)].value.views <= db[id].views

\* C31 (as claimed): while a detail-cache entry for a post exists, no step
\* lowers the views it holds.
C31_CachedViewsNeverDecrease ==
    [][\A id \in BlogIds :
          (/\ getBlogPostCacheKey(id) \in DOMAIN cache
           /\ getBlogPostCacheKey(id) \in DOMAIN cache') =>
             cache'[getBlogPostCacheKey(id)].value.views
                >= cache[getBlogPostCacheKey(id)].value.views]_vars

\* The requests for post id that were answered 404.
NotFound(id) == {r \in Reqs : req[r].id = id /\ req[r].status = "404"}

\* C32 (as claimed): a request for a post that does not exist or is not
\* approved is answered 404 and has changed no counter: the persisted counter
\* of a post counts only requests for it that were not answered 404.
C32_NotFoundLeavesCountersUnchanged ==
    \A id \in BlogIds :
       /\ \A r \in Reqs :
             (req[r].id = id /\ req[r].pc = "done" /\ req[r].status = "404") =>
                ~req[r].committed
       /\ db[id].views <= InitDb[id].views + Cardinality(Arrived(id) \ NotFound(id))

-----------------------------------------------------------------------------
(* The detail cache of a post that stops being approved, checked under     *)
(* ModSpec                                                                 *)

PostTtlMs == POST_CACHE_TTL * MsPerSecond

\* The step leaves the detail-cache entry of post id unwritten: afterwards
\* there is none, or the one that was there, with the expiry it had.
DetailEntryUnwritten(id) ==
    getBlogPostCacheKey(id) \in DOMAIN cache' =>
       /\ getBlogPostCacheKey(id) \in DOMAIN cache
       /\ cache'[getBlogPostCacheKey(id)] = cache[getBlogPostCacheKey(id)]

\* Post id is not approved and no background update for it is under way.
Unapproved(id) ==
    /\ db[id].status # "approved"
    /\ \A q \in Reqs : req[q].id = id => req[q].pc \notin {"bgTx", "bgCommit"}

\* Post id is not approved and no request holds a row of it that it read
\* while the post was approved: no background transaction before its COMMIT,
\* no miss between its SELECT and its cache.set.
UnapprovedAndSettled(id) ==
    /\ db[id].status # "approved"
    /\ \A q \in Reqs :
          (req[q].id = id /\ req[q].pc \in {"missRespond", "bgCommit"})
             => req[q].read = Null

\* C33 (as claimed): once a post is not approved and the background updates
\* are finished, its detail-cache entry is never written again, so that it is
\* served for at most the TTL longer.
C33_UnapprovedServedAtMostTtl ==
    [][\A id \in BlogIds :
          (Unapproved(id) /\ db'[id].status # "approved")
             => DetailEntryUnwritten(id)]_vars

\* C33 (amended): once a post is not approved and no request holds a row it
\* read while the post was approved, the detail-cache entry of the post is
\* never written again, an entry never has more than the TTL to live, and a
\* request for the post is answered 200 only from that entry, not after its
\* expiry: every other request is answered 404, however many requests there
\* are.
C33_UnapprovedServedUntilExpiry ==
    [][\A id \in BlogIds :
          /\ getBlogPostCacheKey(id) \in DOMAIN cache'
                => cache'[getBlogPostCacheKey(id)].expiry <= now' + PostTtlMs
          /\ (db[id].status # "approved" /\ db'[id].status # "approved"
                 /\ UnapprovedAndSettled(id)) =>
                /\ DetailEntryUnwritten(id)
                /\ \A r \in Reqs :
                      (req[r].status = "none" /\ req'[r].status # "none"
                          /\ req'[r].id = id) =>
                         \/ /\ req'[r].status = "200"
                            /\ req'[r].source = "cache"
                            /\ getBlogPostCacheKey(id) \in DOMAIN cache
                            /\ now <= cache[getBlogPostCacheKey(id)].expiry
                         \/ req'[r].status \in {"404", "500"}]_vars

\* C33 witness: the post was cached by the first request and is no longer
\* approved; the second request was answered from the cache and its
\* background update found no approved row and wrote nothing; the entry has
\* expired and the third request was answered 404.
C33_Witness ==
    /\ db["r1"].status # "approved"
    /\ req[1].id = "r1" /\ req[1].path = "miss" /\ req[1].status = "200"
    /\ req[2].id = "r1" /\ req[2].path = "hit" /\ req[2].status = "200"
    /\ req[2].pc = "done" /\ req[2].read = Null /\ ~req[2].logged
    /\ req[3].id = "r1" /\ req[3].path = "miss" /\ req[3].status = "404"
    /\ now > PostTtlMs
    /\ getBlogPostCacheKey("r1") \notin DOMAIN cache

-----------------------------------------------------------------------------
(* The key of issuance against the key of verification, checked under      *)
(* LoginSpec                                                               *)

\* The token POST /login creates for admin a at instant t:
\* jwt.sign(payload, process.env.JWT_SECRET || 'secret_key', { expiresIn: '30m' })
IssuedToken(a, t) ==
    jwt_sign([id |-> AdminRow(a).id, username |-> a],
             LoginSecretOrFallback(jwtSecret), t)

-----------------------------------------------------------------------------
(* The scheduled eviction of MemoryCache, checked under CacheSpec          *)

\* The entry under key k was stored with a positive ttl.
StoredWithTimer(k) == lastSet[k] # Null /\ lastSet[k].ttl > 0

\* The entries deleteIfExpired and get would not drop at this instant.
Unexpired == {k \in DOMAIN cache : cache[k].expiry >= now}

\* C35 (as claimed): once no eviction check is pending, no entry that was
\* stored with a positive ttl is in the store expired, whether or not a get
\* was issued for its key; so when every entry of the store was stored with a
\* positive ttl, size() is the number of entries that are not expired.
C35_TimersEvictExpired ==
    timers = {} =>
       /\ \A k \in DOMAIN cache : StoredWithTimer(k) => k \in Unexpired
       /\ (\A k \in DOMAIN cache : StoredWithTimer(k))
             => MemoryCache_size(cache) = Cardinality(Unexpired)

-----------------------------------------------------------------------------
(* Pagination of GET /api/blogs, checked under PageSpec                    *)

\* The walk has ended with request r: every request up to r was answered
\* 200, and the answer to r carries nextCursor null.
WalkEnded(r) ==
    /\ \A q \in 1..r : lreq[q].pc = "done" /\ lreq[q].status = "200"
    /\ lreq[r].nextCursor = NullCursor

\* The places of post id in the pages of requests 1..r
Occurrences(id, r) ==
    {<<q, k>> \in (1..r) \X (1..Cardinality(BlogIds)) :
        k \in DOMAIN lreq[q].rows /\ lreq[q].rows[k].id = id}

\* C36 (as claimed): when a walk from the first page has reached nextCursor
\* null, every approved post was returned exactly once and no other post was
\* returned.
C36_WalkReturnsEachApprovedOnce ==
    \A r \in ListReqs :
       WalkEnded(r) =>
          \A id \in BlogIds :
             Cardinality(Occurrences(id, r))
                = IF db[id].status = "approved" THEN 1 ELSE 0

-----------------------------------------------------------------------------
(* The shutdown of the cluster, checked under ClusterFairSpec              *)

\* C37 (as claimed): after the primary received SIGTERM no worker is forked,
\* and eventually no worker process runs and the primary has exited.
C37_SigtermStopsCluster ==
    /\ [][primary.state = "terminating" =>
             \A w \in WorkerIds : workers[w] = "unborn" => workers'[w] = "unborn"]_vars
    /\ (primary.state = "terminating")
          ~> (primary.state = "exited" /\ Alive(workers) = {})

=============================================================================
